---- MODULE Spec2Model ----
(***************************************************************************)
(* Model of the pipeline executor of video-pipeline-editor                 *)
(* (src-tauri/src/services/pipeline_executor): the dependency resolver     *)
(* (Kahn's algorithm over HashMaps and a Vec used as a stack), the         *)
(* execution context, the node dispatcher with its handlers, the VMAF      *)
(* phase and the result builder, together with the execute_pipeline        *)
(* command that turns the executor's Result into the report the frontend   *)
(* receives.                                                               *)
(*                                                                         *)
(* Conventions.  Option<T> is a sequence of length 0 (None) or 1 (Some).   *)
(* Result<T> is a record [ok, val, err].  A HashMap is a function whose    *)
(* DOMAIN is its key set.  A file location is a record [stem, ext] (the    *)
(* directory is the same for all files).  Times are in tenths of a second, *)
(* so that the 0.1 s of the trim handlers is 1.  Message strings are       *)
(* sequences of string tokens, built as format! builds them.               *)
(***************************************************************************)
EXTENDS Integers, Sequences, FiniteSets, TLC

\* ------------------------------------------------------------------ bounds
MaxNodes == 3
MaxConns == 2
OrdNodes == 3
OrdConns == 3
MaxOps == 4
RangeNodes == 4
WindowNodes == 3
ChainNodes == 5
VmafConns == 3
TwiceNodes == 3
TwiceConns == 2
RaceConns == 2
MaxCommands == 3

VARIABLES
  nodes,          \* pipeline.nodes: Vec<NodeData>
  connections,    \* pipeline.connections: Vec<ConnectionData>
  disk,           \* the locations that exist on the file system
  pc,             \* position of the run inside execute / execute_pipeline
  in_degree,      \* calculate_execution_order: HashMap<String, usize>
  adj_list,       \* calculate_execution_order: HashMap<String, Vec<String>>
  queue,          \* calculate_execution_order: the work list (a Vec used as a stack)
  ordered_nodes,  \* calculate_execution_order: result, then execute: ordered_nodes
  underflow,      \* TRUE once `*degree -= 1` was applied to a zero counter
  idx,            \* execute: position of the phase 1 loop in ordered_nodes
  vidx,           \* execute: position of the phase 2 loop in pipeline.nodes
  results,        \* ExecutionContext.results
  vmaf_results,   \* ExecutionContext.vmaf_results
  trim_data,      \* ExecutionContext.trim_data
  ret,            \* Option of the Result<ExecutionResult> execute returned
  report,         \* Option of the ExecutionResult execute_pipeline returned
  calls,          \* history: handler and VMAF-processor invocations, in order
  writes,         \* history: context writes, in order
  first_run,      \* history: Option of the report and the invocations of an earlier run
  spectrum        \* AudioSpectrumService: the is_analyzing flag, the start/stop commands
                  \* in progress and the analysis threads they spawned

vars == <<nodes, connections, disk, pc, in_degree, adj_list, queue, ordered_nodes,
          underflow, idx, vidx, results, vmaf_results, trim_data, ret, report,
          calls, writes, first_run, spectrum>>

\* What no step of one run changes: the pipeline, the record of the run before it, and
\* the spectrum service, which is another part of the application state.
graphVars == <<nodes, connections, first_run, spectrum>>
orderVars == <<in_degree, adj_list, queue, ordered_nodes, underflow>>
ctxVars == <<results, vmaf_results, trim_data>>

\* ------------------------------------------------------------ basic values
None == <<>>
Some(x) == <<x>>

Ok(v) == [ok |-> TRUE, val |-> <<v>>, err |-> <<>>]
Err(e) == [ok |-> FALSE, val |-> <<>>, err |-> <<e>>]

EmptyMap == <<>>
Insert(m, k, v) == [x \in (DOMAIN m) \cup {k} |-> IF x = k THEN v ELSE m[x]]

Range(s) == {s[i] : i \in DOMAIN s}

SetMin(S) == CHOOSE x \in S : \A y \in S : x <= y

\* All sequences over S of length at most n.
SeqsUpTo(S, n) == UNION {[1..m -> S] : m \in 0..n}

\* All orders in which the elements of S can be listed.
Perms(S) == {s \in [1..Cardinality(S) -> S] : Range(s) = S}

\* The unsigned `*degree -= 1` of a release build: a zero counter wraps to usize::MAX,
\* written -1 here (a debug build panics instead; `underflow` records that the
\* subtraction was applied to zero).
WrappingDec(d) == IF d = 0 THEN -1 ELSE d - 1

\* AudioSpectrumService::new: the flag is false, nothing runs.
IdleSpectrum == [is_analyzing |-> FALSE, commands |-> <<>>, threads |-> <<>>]

\* ----------------------------------------------------------------- errors
PipelineError(kind, msg) == [kind |-> kind, msg |-> msg]

FFmpegFailed(msg) == PipelineError("FFmpegFailed", msg)
FileNotFound(msg) == PipelineError("FileNotFound", msg)
InvalidNodeConfig(msg) == PipelineError("InvalidNodeConfig", msg)
DirectoryCreationFailed(msg) == PipelineError("DirectoryCreationFailed", msg)

\* impl fmt::Display for PipelineError
Display(e) ==
  CASE e.kind = "FFmpegFailed" -> <<"FFmpeg execution failed: ">> \o e.msg
    [] e.kind = "FileNotFound" -> <<"File not found: ">> \o e.msg
    [] e.kind = "InvalidNodeConfig" -> <<"Invalid node configuration: ">> \o e.msg
    [] e.kind = "IoError" -> <<"IO error: ">> \o e.msg
    [] e.kind = "DirectoryCreationFailed" -> <<"Failed to create directory: ">> \o e.msg
    [] OTHER -> <<"Invalid path: ">> \o e.msg

\* -------------------------------------------------------------- locations
Path(stem, ext) == [stem |-> stem, ext |-> ext]
PathStr(p) == p.stem \o "." \o p.ext

\* ------------------------------------------------------- dependency resolver
NodeIds == {nodes[i].id : i \in DOMAIN nodes}

\* The adjacency lists with every connection entered backwards.
RECURSIVE BuildAdj_reversed(_, _, _)
BuildAdj_reversed(conns, i, adj) ==
  IF i > Len(conns) THEN adj
  ELSE LET c == conns[i] IN
       BuildAdj_reversed(conns, i + 1,
                         IF c.to \in DOMAIN adj
                           THEN [adj EXCEPT ![c.to] = Append(@, c.from)]
                           ELSE adj)

\* Lines 126-135: the loop over the connections, from position i on.
RECURSIVE BuildAdj(_, _, _)
BuildAdj(conns, i, adj) ==
  IF i > Len(conns) THEN adj
  ELSE LET c == conns[i] IN
       BuildAdj(conns, i + 1,
                IF c.from \in DOMAIN adj
                  THEN [adj EXCEPT ![c.from] = Append(@, c.to)]
                  ELSE adj)

\* The in-degrees with no connection counted.
BuildInDegree_none(conns, i, deg) == deg

\* The in-degrees with a connection that is listed several times counted once.
BuildInDegree_distinct(conns, i, deg) ==
  [n \in DOMAIN deg |->
     Cardinality({conns[j].from : j \in {k \in DOMAIN conns : conns[k].to = n}})]

RECURSIVE BuildInDegree(_, _, _)
BuildInDegree(conns, i, deg) ==
  IF i > Len(conns) THEN deg
  ELSE LET c == conns[i] IN
       BuildInDegree(conns, i + 1,
                     IF c.to \in DOMAIN deg
                       THEN [deg EXCEPT ![c.to] = @ + 1]
                       ELSE deg)

\* Lines 153-162: the loop over the neighbours of the popped node, from position i on.
RECURSIVE RelaxNeighbors(_, _, _)
RelaxNeighbors(neighbors, i, st) ==
  IF i > Len(neighbors) THEN st
  ELSE LET n == neighbors[i] IN
       IF n \in DOMAIN st.deg
         THEN LET d == WrappingDec(st.deg[n]) IN
              RelaxNeighbors(neighbors, i + 1,
                [deg |-> [st.deg EXCEPT ![n] = d],
                 queue |-> IF d = 0 THEN Append(st.queue, n) ELSE st.queue,
                 under |-> st.under \/ st.deg[n] = 0])
         ELSE RelaxNeighbors(neighbors, i + 1, st)

\* Lines 116-146: the maps are built and the work list is seeded by iterating the
\* in_degree HashMap, whose iteration order is arbitrary.
BuildGraph ==
  /\ pc = "start"
  /\ LET deg0 == [n \in NodeIds |-> 0]
         adj0 == [n \in NodeIds |-> <<>>]
         deg == BuildInDegree(connections, 1, deg0)
     IN /\ in_degree' = deg
        /\ adj_list' = BuildAdj(connections, 1, adj0)
        /\ queue' \in Perms({n \in NodeIds : deg[n] = 0})
  /\ ordered_nodes' = <<>>
  /\ pc' = "kahn"
  /\ UNCHANGED <<graphVars, disk, underflow, idx, vidx, ctxVars, ret, report, calls, writes>>

\* Lines 148-164: one iteration of `while let Some(current) = queue.pop()`.
KahnStep ==
  /\ pc = "kahn"
  /\ queue # <<>>
  /\ LET current == queue[Len(queue)]
         rest == SubSeq(queue, 1, Len(queue) - 1)
         st0 == [deg |-> in_degree, queue |-> rest, under |-> underflow]
         st == IF current \in DOMAIN adj_list
                 THEN RelaxNeighbors(adj_list[current], 1, st0)
                 ELSE st0
     IN /\ ordered_nodes' = Append(ordered_nodes, current)
        /\ in_degree' = st.deg
        /\ queue' = st.queue
        /\ underflow' = st.under
  /\ UNCHANGED <<graphVars, disk, pc, adj_list, idx, vidx, ctxVars, ret, report, calls, writes>>

CircularError == InvalidNodeConfig(<<"Circular dependency detected in pipeline">>)

\* Lines 166-171 with the `?` of line 62: the order is shorter (or longer) than the
\* node list, calculate_execution_order fails and execute returns that error.
CycleDetected ==
  /\ pc = "kahn"
  /\ queue = <<>>
  /\ Len(ordered_nodes) # Len(nodes)
  /\ ret' = Some(Err(CircularError))
  /\ pc' = "returned"
  /\ UNCHANGED <<graphVars, disk, orderVars, idx, vidx, ctxVars, report, calls, writes>>

\* Lines 173-176 and 62-66: the order is returned and phase 1 starts at its head.
OrderReady ==
  /\ pc = "kahn"
  /\ queue = <<>>
  /\ Len(ordered_nodes) = Len(nodes)
  /\ idx' = 1
  /\ pc' = "dispatch"
  /\ UNCHANGED <<graphVars, disk, orderVars, vidx, ctxVars, ret, report, calls, writes>>

\* -------------------------------------------------------- execution context
\* ExecutionContext::add_result
\* A store that keeps the artifact a node id already has.
add_result_keep_first(res, node_id, video_data) ==
  IF node_id \in DOMAIN res THEN res ELSE Insert(res, node_id, video_data)

\* ExecutionContext::add_result
add_result(res, node_id, video_data) == Insert(res, node_id, video_data)

\* ExecutionContext::add_vmaf_result
add_vmaf_result(vres, node_id, vmaf_score) == Insert(vres, node_id, vmaf_score)

\* An annotation whose duration is its end time.
add_trim_data_no_subtraction(td, video_path, start_time, end_time) ==
  Insert(td, video_path,
         [start_time |-> start_time, end_time |-> end_time, duration |-> end_time])

\* ExecutionContext::add_trim_data
add_trim_data(td, video_path, start_time, end_time) ==
  Insert(td, video_path,
         [start_time |-> start_time, end_time |-> end_time,
          duration |-> end_time - start_time])

\* ExecutionContext::get_result
get_result(res, node_id) ==
  IF node_id \in DOMAIN res
    THEN Ok(res[node_id])
    ELSE Err(InvalidNodeConfig(<<"No result found for node: ", node_id>>))

\* ExecutionContext::get_trim_data
get_trim_data(td, video_path) ==
  IF video_path \in DOMAIN td
    THEN Ok(td[video_path])
    ELSE Err(InvalidNodeConfig(<<"No trim data found for video: ", PathStr(video_path)>>))

\* A report that counts a run with any context entry as a success.
build_result_any_entry(res, vres, td) ==
  [success |-> DOMAIN res # {} \/ DOMAIN vres # {} \/ DOMAIN td # {},
   message |-> <<"Pipeline completed">>,
   outputs |-> res,
   vmaf_results |-> IF DOMAIN vres = {} THEN None ELSE Some(vres)]

\* ExecutionContext::build_result.  The message keeps the counts it is formatted from.
build_result(res, vres, td) ==
  LET success_count == Cardinality(DOMAIN res)
      vmaf_count == Cardinality(DOMAIN vres)
      trim_count == Cardinality(DOMAIN td)
  IN [success |-> success_count > 0,
      message |-> IF success_count > 0
                    THEN <<"Pipeline completed successfully! Processed ",
                           ToString(success_count), " nodes">>
                         \o (IF vmaf_count > 0
                               THEN <<", ", ToString(vmaf_count), " VMAF analyses">>
                               ELSE <<>>)
                         \o (IF trim_count > 0
                               THEN <<", ", ToString(trim_count), " trim operations">>
                               ELSE <<>>)
                    ELSE <<"No nodes were processed successfully">>,
      outputs |-> res,
      vmaf_results |-> IF DOMAIN vres = {} THEN None ELSE Some(vres)]

\* ExecutionResult::failure
\* A failure report that leaves the node's id out of its message.
failure_anonymous(node_id, node_type, error) ==
  [success |-> FALSE,
   message |-> <<node_type, " node failed: ">> \o Display(error),
   outputs |-> EmptyMap,
   vmaf_results |-> None]

\* ExecutionResult::failure
failure(node_id, node_type, error) ==
  [success |-> FALSE,
   message |-> <<node_type, " node '", node_id, "' failed: ">> \o Display(error),
   outputs |-> EmptyMap,
   vmaf_results |-> None]

\* ------------------------------------------------------ node data extraction
\* NodeDataExtractor::extract_string: the key is absent, or not a string, when the
\* field is None.
extract_string(data, key) ==
  IF data[key] = None
    THEN Err(InvalidNodeConfig(<<"Missing or invalid ", key>>))
    ELSE Ok(data[key][1])

\* NodeDataExtractor::extract_string_or_default
extract_string_or_default(data, key, default) ==
  IF data[key] = None THEN default ELSE data[key][1]

\* NodeDataExtractor::extract_f64_or_default
extract_f64_or_default(data, key, default) ==
  IF data[key] = None THEN default ELSE data[key][1]

\* ------------------------------------------------------- connection helper
MatchingConnections(node_id, conns, handle) ==
  {i \in DOMAIN conns : conns[i].to = node_id /\ conns[i].to_handle = handle}

\* ConnectionHelper::get_input_video: Iterator::find takes the first match.
get_input_video(node_id, res, conns, handle) ==
  LET m == MatchingConnections(node_id, conns, handle) IN
  IF m = {}
    THEN Err(InvalidNodeConfig(<<"No ", handle, " connection found for node ", node_id>>))
    ELSE get_result(res, conns[SetMin(m)].from)

\* ConnectionHelper::get_input_connections (and get_all_inputs, which calls it)
get_input_connections(node_id, conns) ==
  LET to_node(c) == c.to = node_id IN SelectSeq(conns, to_node)

get_all_inputs(node_id, conns) == get_input_connections(node_id, conns)

\* ConnectionHelper::has_inputs
has_inputs(node_id, conns) == \E i \in DOMAIN conns : conns[i].to = node_id

\* ConnectionHelper::find_multiple_connections
find_multiple_connections(node_id, conns, handles) ==
  LET wanted(c) == c.to = node_id /\ c.to_handle \in handles IN SelectSeq(conns, wanted)

\* ----------------------------------------------------------- node validator
\* NodeValidator::validate_file_exists
validate_file_exists(dsk, path) ==
  IF path \in dsk THEN Ok(TRUE) ELSE Err(FileNotFound(<<PathStr(path)>>))

\* NodeValidator::validate_range.  max is an Option: None stands for f64::MAX, which
\* no finite JSON number exceeds.
validate_range(value, min, max, field_name) ==
  IF value >= min /\ (max = None \/ value <= max[1])
    THEN Ok(TRUE)
    ELSE Err(InvalidNodeConfig(<<field_name, " must be between ", ToString(min),
                                 " and ", IF max = None THEN "f64::MAX" ELSE ToString(max[1]),
                                 ", got ", ToString(value)>>))

\* ------------------------------------------------------------ media backend
\* What ffprobe reports for a file: the model gives every file the same stream
\* properties, the format is the file's extension.
VideoData(path, width, height, duration) ==
  [path |-> path, format |-> path.ext, width |-> width, height |-> height,
   duration |-> duration]

ProbeVideo(path) == VideoData(path, 1920, 1080, 600)
ProbeAudio(path) == VideoData(path, 0, 0, 600)

\* The outcomes of one invocation of the external tool (ffmpeg / ffprobe).
BackendOutcomes == {"ok", "fail"}

\* A record of one Media Backend invocation: the operation, the sequence of its input
\* locations and the trim range it was given.
Invocation(op, input, trim) == [op |-> op, input |-> input, trim |-> trim]

\* What a handler hands back to the dispatcher: its Result<Option<VideoData>>, the
\* trim annotations and the disk after it ran, and the backend invocation it made.
Outcome(res, td, dsk, inv) == [res |-> res, trim_data |-> td, disk |-> dsk, inv |-> inv]

\* FFmpegService::get_video_info
get_video_info(dsk, path, be) ==
  IF path \notin dsk THEN Err(FileNotFound(<<PathStr(path)>>))
  ELSE IF be = "fail" THEN Err(FFmpegFailed(<<"ffprobe failed: ", "stderr">>))
  ELSE Ok(ProbeVideo(path))

\* FFmpegService::get_basic_audio_info, as the VideoData handle_input_audio builds.
get_basic_audio_info(dsk, path, be) ==
  IF path \notin dsk THEN Err(FileNotFound(<<PathStr(path)>>))
  ELSE IF be = "fail" THEN Err(FFmpegFailed(<<"ffprobe failed: ", "stderr">>))
  ELSE Ok(ProbeAudio(path))

\* TrimService::trim_video and TrimAudioService::trim_audio (data-only mode)
trim_video(dsk, input_path, start_time, end_time, be) ==
  IF input_path \notin dsk THEN Err(FileNotFound(<<PathStr(input_path)>>))
  ELSE IF end_time - start_time <= 0
    THEN Err(InvalidNodeConfig(<<"End time must be greater than start time">>))
  ELSE IF be = "fail" THEN Err(FFmpegFailed(<<"ffprobe failed: ", "stderr">>))
  ELSE Ok(ProbeVideo(input_path))

\* FFmpegService::convert_video / convert_audio: the result describes the output file.
convert_media(dsk, input_path, output_path, be, audio) ==
  IF input_path \notin dsk THEN Err(FileNotFound(<<PathStr(input_path)>>))
  ELSE IF be = "fail" THEN Err(FFmpegFailed(<<"Conversion failed: ", "stderr">>))
  ELSE Ok(IF audio THEN ProbeAudio(output_path) ELSE ProbeVideo(output_path))

\* FFmpegService::extract_frames / extract_frames_with_trim
extract_frames(dsk, input_path, be) ==
  IF input_path \notin dsk THEN Err(FileNotFound(<<PathStr(input_path)>>))
  ELSE IF be = "fail" THEN Err(FFmpegFailed(<<"Frame extraction failed: ", "stderr">>))
  ELSE Ok(TRUE)

\* FFmpegService::get_video_metadata
get_video_metadata(dsk, path, be) ==
  IF path \notin dsk THEN Err(FileNotFound(<<PathStr(path)>>))
  ELSE IF be = "fail" THEN Err(FFmpegFailed(<<"ffprobe failed: ", "stderr">>))
  ELSE Ok(TRUE)

\* FFmpegService::calculate_vmaf with validate_vmaf_inputs.  The score is the
\* backend's; the model gives every comparison the same numbers.
VmafScore(reference_path, distorted_path) ==
  [mean |-> 95, min |-> 95, max |-> 95, harmonic_mean |-> 95, frame_count |-> 0,
   model |-> "default", reference_path |-> reference_path,
   distorted_path |-> distorted_path]

calculate_vmaf(dsk, reference_path, distorted_path, be) ==
  IF reference_path \notin dsk THEN Err(FileNotFound(<<PathStr(reference_path)>>))
  ELSE IF distorted_path \notin dsk THEN Err(FileNotFound(<<PathStr(distorted_path)>>))
  ELSE IF reference_path = distorted_path
    THEN Err(InvalidNodeConfig(<<"Reference and distorted videos must be different files">>))
  ELSE IF be = "fail" THEN Err(FFmpegFailed(<<"VMAF calculation failed: ", "stderr">>))
  ELSE Ok(VmafScore(reference_path, distorted_path))

\* ------------------------------------------------------------ node handlers
\* Each handler is given the node, the context maps it reads, the connection list,
\* the disk and the outcome `be` of the external tool, should it invoke it.

\* NodeHandlers::handle_input_video
handle_input_video(node, td, dsk, be) ==
  LET fp == extract_string(node.data, "filePath") IN
  IF ~fp.ok
    THEN Outcome(Err(InvalidNodeConfig(<<"Input node needs a file selected">>)), td, dsk, None)
  ELSE LET file_path == fp.val[1]
           ex == validate_file_exists(dsk, file_path) IN
  IF ~ex.ok THEN Outcome(Err(ex.err[1]), td, dsk, None)
  ELSE LET info == get_video_info(dsk, file_path, be) IN
       Outcome(IF info.ok THEN Ok(Some(info.val[1])) ELSE Err(info.err[1]), td, dsk,
               Some(Invocation("get_video_info", <<file_path>>, None)))

\* NodeHandlers::handle_input_audio
handle_input_audio(node, td, dsk, be) ==
  LET fp == extract_string(node.data, "filePath") IN
  IF ~fp.ok
    THEN Outcome(Err(InvalidNodeConfig(<<"Input audio node needs a file selected">>)), td, dsk, None)
  ELSE LET file_path == fp.val[1]
           ex == validate_file_exists(dsk, file_path) IN
  IF ~ex.ok THEN Outcome(Err(ex.err[1]), td, dsk, None)
  ELSE LET info == get_basic_audio_info(dsk, file_path, be) IN
       Outcome(IF info.ok THEN Ok(Some(info.val[1])) ELSE Err(info.err[1]), td, dsk,
               Some(Invocation("get_basic_audio_info", <<file_path>>, None)))

\* A trim handler that hands its input on as its own artifact.
handle_trim_passing(node, res, td, conns, dsk, be, handle) ==
  LET input == get_input_video(node.id, res, conns, handle) IN
  IF ~input.ok THEN Outcome(Err(input.err[1]), td, dsk, None)
  ELSE LET input_video == input.val[1]
           start_time == extract_f64_or_default(node.data, "startTime", 0)
           end_time == extract_f64_or_default(node.data, "endTime", 600) IN
       Outcome(Ok(Some(input_video)),
               add_trim_data(td, input_video.path, start_time, end_time), dsk,
               Some(Invocation("trim", <<input_video.path>>, Some(<<start_time, end_time>>))))

\* NodeHandlers::handle_trim_video and handle_trim_audio, which differ in the handle
\* they read and in the trim service they call.
handle_trim(node, res, td, conns, dsk, be, handle) ==
  LET input == get_input_video(node.id, res, conns, handle) IN
  IF ~input.ok THEN Outcome(Err(input.err[1]), td, dsk, None)
  ELSE LET input_video == input.val[1]
           start_time == extract_f64_or_default(node.data, "startTime", 0)
           end_time == extract_f64_or_default(node.data, "endTime", 600)
           v1 == validate_range(start_time, 0, None, "start_time")
           v2 == validate_range(end_time, start_time + 1, None, "end_time") IN
  IF ~v1.ok THEN Outcome(Err(v1.err[1]), td, dsk, None)
  ELSE IF ~v2.ok THEN Outcome(Err(v2.err[1]), td, dsk, None)
  ELSE LET t == trim_video(dsk, input_video.path, start_time, end_time, be) IN
  IF ~t.ok
    THEN Outcome(Err(t.err[1]), td, dsk,
                 Some(Invocation("trim", <<input_video.path>>, Some(<<start_time, end_time>>))))
    ELSE Outcome(Ok(None), add_trim_data(td, input_video.path, start_time, end_time), dsk,
                 Some(Invocation("trim", <<input_video.path>>, Some(<<start_time, end_time>>))))

handle_trim_video(node, res, td, conns, dsk, be) ==
  handle_trim(node, res, td, conns, dsk, be, "video-input")

handle_trim_audio(node, res, td, conns, dsk, be) ==
  handle_trim(node, res, td, conns, dsk, be, "audio-input")

\* Lines 225-242 and 305-322: the output location, a sibling of the input named
\* <stem>_converted.<format> unless the node names one.
ConvertOutputPath(data, input_path, format) ==
  LET op == extract_string(data, "outputPath") IN
  IF op.ok THEN op.val[1] ELSE Path(input_path.stem \o "_converted", format)

\* A lookup that finds no trim range.
TrimFor_none(td, path) == None

\* Lines 244-249 and 324-329: the trim range handed to the conversion.
TrimFor(td, path) ==
  LET t == get_trim_data(td, path) IN
  IF t.ok THEN Some(<<t.val[1].start_time, t.val[1].end_time>>) ELSE None

\* A conversion that writes its output and returns no artifact.
handle_convert_no_artifact(node, res, td, conns, dsk, be, handle, default_format, audio) ==
  LET input == get_input_video(node.id, res, conns, handle) IN
  IF ~input.ok THEN Outcome(Err(input.err[1]), td, dsk, None)
  ELSE LET input_video == input.val[1]
           format == extract_string_or_default(node.data, "format", default_format)
           output_path == ConvertOutputPath(node.data, input_video.path, format)
           trim == TrimFor(td, input_video.path)
           conv == convert_media(dsk, input_video.path, output_path, be, audio)
           inv == Some(Invocation(IF audio THEN "convert_audio" ELSE "convert_video",
                                  <<input_video.path>>, trim)) IN
  IF conv.ok
    THEN Outcome(Ok(None), td, dsk \cup {output_path}, inv)
    ELSE Outcome(Err(conv.err[1]), td, dsk, inv)

\* NodeHandlers::handle_convert_video and handle_convert_audio
handle_convert(node, res, td, conns, dsk, be, handle, default_format, audio) ==
  LET input == get_input_video(node.id, res, conns, handle) IN
  IF ~input.ok THEN Outcome(Err(input.err[1]), td, dsk, None)
  ELSE LET input_video == input.val[1]
           format == extract_string_or_default(node.data, "format", default_format)
           output_path == ConvertOutputPath(node.data, input_video.path, format)
           trim == TrimFor(td, input_video.path)
           conv == convert_media(dsk, input_video.path, output_path, be, audio)
           inv == Some(Invocation(IF audio THEN "convert_audio" ELSE "convert_video",
                                  <<input_video.path>>, trim)) IN
  IF conv.ok
    THEN Outcome(Ok(Some(conv.val[1])), td, dsk \cup {output_path}, inv)
    ELSE Outcome(Err(conv.err[1]), td, dsk, inv)

handle_convert_video(node, res, td, conns, dsk, be) ==
  handle_convert(node, res, td, conns, dsk, be, "video-input", "mp4", FALSE)

handle_convert_audio(node, res, td, conns, dsk, be) ==
  handle_convert(node, res, td, conns, dsk, be, "audio-input", "mp3", TRUE)

\* NodeHandlers::handle_sequence_extract, with the `?; Ok(None)` of lines 80-83.
handle_sequence_extract(node, res, td, conns, dsk, be) ==
  LET input == get_input_video(node.id, res, conns, "video-input") IN
  IF ~input.ok THEN Outcome(Err(input.err[1]), td, dsk, None)
  ELSE LET input_video == input.val[1]
           trim == TrimFor(td, input_video.path)
           x == extract_frames(dsk, input_video.path, be)
           inv == Some(Invocation(IF trim = None THEN "extract_frames"
                                                 ELSE "extract_frames_with_trim",
                                  <<input_video.path>>, trim)) IN
  Outcome(IF x.ok THEN Ok(None) ELSE Err(x.err[1]), td, dsk, inv)

\* A preview that hands on a copy of its input under a location of its own.
handle_view_video_copy(node, res, td, conns, dsk) ==
  LET input == get_input_video(node.id, res, conns, "video-input") IN
  Outcome(IF input.ok
            THEN Ok(Some([input.val[1] EXCEPT
                            !.path = Path(input.val[1].path.stem \o "_view",
                                          input.val[1].path.ext)]))
            ELSE Err(input.err[1]),
          td, dsk, None)

\* NodeHandlers::handle_view_video and handle_grid_view
handle_view_video(node, res, td, conns, dsk) ==
  LET input == get_input_video(node.id, res, conns, "video-input") IN
  Outcome(IF input.ok THEN Ok(Some(input.val[1])) ELSE Err(input.err[1]), td, dsk, None)

handle_grid_view(node, res, td, conns, dsk) == handle_view_video(node, res, td, conns, dsk)

\* NodeHandlers::handle_info_video
handle_info_video(node, res, td, conns, dsk, be) ==
  LET input == get_input_video(node.id, res, conns, "video-input") IN
  IF ~input.ok THEN Outcome(Err(input.err[1]), td, dsk, None)
  ELSE LET m == get_video_metadata(dsk, input.val[1].path, be) IN
       Outcome(IF m.ok THEN Ok(None) ELSE Err(m.err[1]), td, dsk,
               Some(Invocation("get_video_metadata", <<input.val[1].path>>, None)))

\* NodeHandlers::handle_spectrum_analyzer: the or_else chain over three handle names
\* and then the first connection of any handle.
handle_spectrum_analyzer(node, res, td, conns, dsk) ==
  LET all_connections == get_input_connections(node.id, conns)
      a == get_input_video(node.id, res, conns, "video-input")
      b == get_input_video(node.id, res, conns, "audio-input")
      c == get_input_video(node.id, res, conns, "video-output")
      d == IF all_connections # <<>>
             THEN get_result(res, all_connections[1].from)
             ELSE Err(InvalidNodeConfig(<<"Spectrum analyzer has no input connections">>))
      input == IF a.ok THEN a ELSE IF b.ok THEN b ELSE IF c.ok THEN c ELSE d IN
  IF input.ok
    THEN Outcome(Ok(Some(input.val[1])), td, dsk, None)
    ELSE Outcome(Err(InvalidNodeConfig(
                   <<"Spectrum analyzer needs an audio/video input connection">>)),
                 td, dsk, None)

\* NodeHandlers::process: the match over node_type.
process(node, res, td, conns, dsk, be) ==
  CASE node.node_type = "inputVideo" -> handle_input_video(node, td, dsk, be)
    [] node.node_type = "inputAudio" -> handle_input_audio(node, td, dsk, be)
    [] node.node_type = "viewVideo" -> handle_view_video(node, res, td, conns, dsk)
    [] node.node_type = "trimVideo" -> handle_trim_video(node, res, td, conns, dsk, be)
    [] node.node_type = "trimAudio" -> handle_trim_audio(node, res, td, conns, dsk, be)
    [] node.node_type = "convertVideo" -> handle_convert_video(node, res, td, conns, dsk, be)
    [] node.node_type = "convertAudio" -> handle_convert_audio(node, res, td, conns, dsk, be)
    [] node.node_type = "sequenceExtract" ->
         handle_sequence_extract(node, res, td, conns, dsk, be)
    [] node.node_type = "infoVideo" -> handle_info_video(node, res, td, conns, dsk, be)
    [] node.node_type = "gridView" -> handle_grid_view(node, res, td, conns, dsk)
    [] node.node_type = "spectrumAnalyzer" ->
         handle_spectrum_analyzer(node, res, td, conns, dsk)
    [] OTHER -> Outcome(Err(InvalidNodeConfig(<<"Unknown node type: ", node.node_type>>)),
                        td, dsk, None)

\* ------------------------------------------------------------ VMAF processor
ReferenceHandles == {"reference-input", "ref-input", "video-ref"}
TestHandles == {"test-input", "distorted-input", "video-test"}

\* VmafProcessor::get_explicit_paths
get_explicit_paths(node, dsk) ==
  LET r == extract_string(node.data, "referenceVideoPath")
      t == extract_string(node.data, "testVideoPath") IN
  IF ~r.ok THEN Err(r.err[1])
  ELSE IF ~t.ok THEN Err(t.err[1])
  ELSE LET e1 == validate_file_exists(dsk, r.val[1])
           e2 == validate_file_exists(dsk, t.val[1]) IN
  IF ~e1.ok THEN Err(e1.err[1])
  ELSE IF ~e2.ok THEN Err(e2.err[1])
  ELSE Ok(<<r.val[1], t.val[1]>>)

\* VmafProcessor::get_connected_videos
get_connected_videos(node, res, conns) ==
  LET connections_found ==
        find_multiple_connections(node.id, conns, ReferenceHandles \cup TestHandles) IN
  IF Len(connections_found) >= 2
    THEN LET r == get_result(res, connections_found[1].from)
             t == get_result(res, connections_found[2].from) IN
         IF ~r.ok THEN Err(r.err[1])
         ELSE IF ~t.ok THEN Err(t.err[1])
         ELSE Ok(<<r.val[1].path, t.val[1].path>>)
    ELSE Err(InvalidNodeConfig(<<"Could not find reference and test video connections">>))

\* An auto-detection that takes the second connection as the reference.
auto_detect_vmaf_swapped(node, res, conns) ==
  LET input_connections == get_all_inputs(node.id, conns) IN
  IF Len(input_connections) # 2
    THEN Err(InvalidNodeConfig(<<"Expected 2 inputs for auto-detection, found ",
                                 ToString(Len(input_connections))>>))
    ELSE LET r == get_result(res, input_connections[2].from)
             t == get_result(res, input_connections[1].from) IN
         IF ~r.ok THEN Err(r.err[1])
         ELSE IF ~t.ok THEN Err(t.err[1])
         ELSE Ok(<<r.val[1].path, t.val[1].path>>)

\* VmafProcessor::auto_detect_vmaf, up to its call of calculate_vmaf_explicit
auto_detect_vmaf(node, res, conns) ==
  LET input_connections == get_all_inputs(node.id, conns) IN
  IF Len(input_connections) # 2
    THEN Err(InvalidNodeConfig(<<"Expected 2 inputs for auto-detection, found ",
                                 ToString(Len(input_connections))>>))
    ELSE LET r == get_result(res, input_connections[1].from)
             t == get_result(res, input_connections[2].from) IN
         IF ~r.ok THEN Err(r.err[1])
         ELSE IF ~t.ok THEN Err(t.err[1])
         ELSE Ok(<<r.val[1].path, t.val[1].path>>)

\* VmafProcessor::calculate_vmaf_explicit (calculate_vmaf_connected forwards to it):
\* [res |-> the Result<VmafScore>, inv |-> the backend invocation].
calculate_vmaf_explicit(pair, dsk, be) ==
  [res |-> calculate_vmaf(dsk, pair[1], pair[2], be),
   inv |-> Some(Invocation("calculate_vmaf", pair, None))]

\* A processor that tries the connections before the explicit paths.
vmaf_process_connections_first(node, res, conns, dsk, be) ==
  IF ~has_inputs(node.id, conns)
    THEN [res |-> Err(InvalidNodeConfig(<<"VMAF analysis needs input connections">>)),
          inv |-> None]
  ELSE LET explicit == get_explicit_paths(node, dsk)
           connected == get_connected_videos(node, res, conns)
           auto == auto_detect_vmaf(node, res, conns) IN
  IF connected.ok THEN calculate_vmaf_explicit(connected.val[1], dsk, be)
  ELSE IF auto.ok THEN calculate_vmaf_explicit(auto.val[1], dsk, be)
  ELSE IF explicit.ok THEN calculate_vmaf_explicit(explicit.val[1], dsk, be)
  ELSE [res |-> Err(InvalidNodeConfig(
          <<"VMAF analysis requires either explicit video paths or two connected inputs">>)),
        inv |-> None]

\* A processor whose auto-detection takes the first two of any number of inputs.
vmaf_process_first_two(node, res, conns, dsk, be) ==
  IF ~has_inputs(node.id, conns)
    THEN [res |-> Err(InvalidNodeConfig(<<"VMAF analysis needs input connections">>)),
          inv |-> None]
  ELSE LET input_connections == get_all_inputs(node.id, conns)
           explicit == get_explicit_paths(node, dsk)
           connected == get_connected_videos(node, res, conns) IN
  IF explicit.ok THEN calculate_vmaf_explicit(explicit.val[1], dsk, be)
  ELSE IF connected.ok THEN calculate_vmaf_explicit(connected.val[1], dsk, be)
  ELSE IF Len(input_connections) >= 2
    THEN LET auto == auto_detect_vmaf(node, res, SubSeq(input_connections, 1, 2)) IN
         IF auto.ok THEN calculate_vmaf_explicit(auto.val[1], dsk, be)
         ELSE [res |-> Err(auto.err[1]), inv |-> None]
  ELSE [res |-> Err(InvalidNodeConfig(
          <<"VMAF analysis requires either explicit video paths or two connected inputs">>)),
        inv |-> None]

\* VmafProcessor::process: the three strategies in order.
vmaf_process(node, res, conns, dsk, be) ==
  IF ~has_inputs(node.id, conns)
    THEN [res |-> Err(InvalidNodeConfig(<<"VMAF analysis needs input connections">>)),
          inv |-> None]
  ELSE LET input_connections == get_all_inputs(node.id, conns)
           explicit == get_explicit_paths(node, dsk)
           connected == get_connected_videos(node, res, conns) IN
  IF explicit.ok THEN calculate_vmaf_explicit(explicit.val[1], dsk, be)
  ELSE IF connected.ok THEN calculate_vmaf_explicit(connected.val[1], dsk, be)
  ELSE IF Len(input_connections) = 2
    THEN LET auto == auto_detect_vmaf(node, res, conns) IN
         IF auto.ok THEN calculate_vmaf_explicit(auto.val[1], dsk, be)
         ELSE [res |-> Err(auto.err[1]), inv |-> None]
  ELSE [res |-> Err(InvalidNodeConfig(
          <<"VMAF analysis requires either explicit video paths or two connected inputs">>)),
        inv |-> None]

\* ------------------------------------------------------------------ execute
\* Lines 67-69: the first node of the list with that id.
\* A lookup that always yields the head of the node list.
FindNode_first(node_id) == nodes[1]

FindNode(node_id) == nodes[SetMin({i \in DOMAIN nodes : nodes[i].id = node_id})]

\* A phase 1 that passes over no node.
SkippedInPhase1_never(node) == FALSE

\* Line 71: the nodes phase 1 passes over.
SkippedInPhase1(node) == node.node_type = "vmafAnalysis"

\* Line 90: the nodes phase 2 hands to the VMAF processor.
HandledInPhase2(node) == node.node_type = "vmafAnalysis"

CallRecord(op, node_id, res, inv) ==
  [op |-> op, node |-> node_id, ok |-> res.ok, err |-> res.err, inv |-> inv]

\* A match that leaves the phase 1 loop on the node it has just processed.
AfterHandler_again(node, handler_res, res) ==
  [pc |-> "dispatch",
   step |-> 0,
   results |-> IF handler_res.ok /\ handler_res.val[1] # None
                 THEN add_result(res, node.id, handler_res.val[1][1])
                 ELSE res,
   ret |-> None]

\* A match that treats a handler's error as a node without output.
AfterHandler_swallow(node, handler_res, res) ==
  [pc |-> "dispatch",
   step |-> 1,
   results |-> IF handler_res.ok /\ handler_res.val[1] # None
                 THEN add_result(res, node.id, handler_res.val[1][1])
                 ELSE res,
   ret |-> None]

\* Lines 73-84: the match on what the handler returned.  An artifact is stored under
\* the node's id; an error ends execute with the failure report.
AfterHandler(node, handler_res, res) ==
  IF handler_res.ok
    THEN [pc |-> "dispatch",
          step |-> 1,
          results |-> IF handler_res.val[1] # None
                        THEN add_result(res, node.id, handler_res.val[1][1])
                        ELSE res,
          ret |-> None]
    ELSE [pc |-> "returned",
          step |-> 0,
          results |-> res,
          ret |-> Some(Ok(failure(node.id, node.node_type, handler_res.err[1])))]

\* The context writes of one phase 1 iteration, for the history: add_trim_data is
\* called by a trim handler whose trim service returned Ok (lines 137-139 and 168-170
\* of node_handlers.rs), add_result by the dispatcher (line 75).
HandlerWrites(node, out, old_trim) ==
  (IF out.res.ok /\ out.inv # None /\ out.inv[1].op = "trim"
     THEN <<[op |-> "add_trim_data", path |-> out.inv[1].input[1],
             start_time |-> out.inv[1].trim[1][1], end_time |-> out.inv[1].trim[1][2]]>>
     ELSE <<>>)
  \o (IF out.res.ok /\ out.res.val[1] # None
        THEN <<[op |-> "add_result", id |-> node.id, video_data |-> out.res.val[1][1]]>>
        ELSE <<>>)

\* Lines 66-85: one iteration of the phase 1 loop.
DispatchStep ==
  /\ pc = "dispatch"
  /\ idx <= Len(ordered_nodes)
  /\ LET node == FindNode(ordered_nodes[idx]) IN
     IF SkippedInPhase1(node)
       THEN /\ idx' = idx + 1
            /\ UNCHANGED <<disk, pc, ctxVars, ret, calls, writes>>
       ELSE \E be \in BackendOutcomes :
              LET out == process(node, results, trim_data, connections, disk, be)
                  after == AfterHandler(node, out.res, results)
              IN /\ calls' = Append(calls, CallRecord("process", node.id, out.res, out.inv))
                 /\ writes' = writes \o HandlerWrites(node, out, trim_data)
                 /\ disk' = out.disk
                 /\ trim_data' = out.trim_data
                 /\ results' = after.results
                 /\ idx' = idx + after.step
                 /\ pc' = after.pc
                 /\ ret' = after.ret
                 /\ UNCHANGED vmaf_results
  /\ UNCHANGED <<graphVars, orderVars, vidx, report>>

\* Lines 85-89: the phase 1 loop is over, phase 2 starts at the head of the node list.
Phase1Done ==
  /\ pc = "dispatch"
  /\ idx > Len(ordered_nodes)
  /\ vidx' = 1
  /\ pc' = "vmaf"
  /\ UNCHANGED <<graphVars, disk, orderVars, idx, ctxVars, ret, report, calls, writes>>

\* Lines 91-94: the match on what the VMAF processor returned.  A score is stored
\* under the node's id; an error is printed and the loop goes on.
\* A phase 2 that keeps only the VMAF result it stored last.
AfterVmaf_reset(node, vmaf_res, vres) ==
  IF vmaf_res.ok
    THEN [pc |-> "vmaf",
          vmaf_results |-> add_vmaf_result(EmptyMap, node.id, vmaf_res.val[1]),
          ret |-> None]
    ELSE [pc |-> "vmaf", vmaf_results |-> vres, ret |-> None]

\* A phase 2 that ends the run at the first VMAF error.
AfterVmaf_fatal(node, vmaf_res, vres) ==
  IF vmaf_res.ok
    THEN [pc |-> "vmaf", vmaf_results |-> add_vmaf_result(vres, node.id, vmaf_res.val[1]),
          ret |-> None]
    ELSE [pc |-> "returned", vmaf_results |-> vres,
          ret |-> Some(Ok(failure(node.id, node.node_type, vmaf_res.err[1])))]

AfterVmaf(node, vmaf_res, vres) ==
  IF vmaf_res.ok
    THEN [pc |-> "vmaf", vmaf_results |-> add_vmaf_result(vres, node.id, vmaf_res.val[1]),
          ret |-> None]
    ELSE [pc |-> "vmaf", vmaf_results |-> vres, ret |-> None]

\* Lines 89-96: one iteration of the phase 2 loop.
VmafStep ==
  /\ pc = "vmaf"
  /\ vidx <= Len(nodes)
  /\ LET node == nodes[vidx] IN
     IF HandledInPhase2(node)
       THEN \E be \in BackendOutcomes :
              LET out == vmaf_process(node, results, connections, disk, be)
                  after == AfterVmaf(node, out.res, vmaf_results)
              IN /\ calls' = Append(calls, CallRecord("vmaf", node.id, out.res, out.inv))
                 /\ vmaf_results' = after.vmaf_results
                 /\ pc' = after.pc
                 /\ ret' = after.ret
                 /\ writes' = IF out.res.ok
                                THEN Append(writes, [op |-> "add_vmaf_result", id |-> node.id,
                                                     vmaf_score |-> out.res.val[1]])
                                ELSE writes
       ELSE UNCHANGED <<pc, vmaf_results, ret, calls, writes>>
  /\ vidx' = vidx + 1
  /\ UNCHANGED <<graphVars, disk, orderVars, idx, results, trim_data, report>>

\* Line 98: the context is turned into the report.
BuildResult ==
  /\ pc = "vmaf"
  /\ vidx > Len(nodes)
  /\ ret' = Some(Ok(build_result(results, vmaf_results, trim_data)))
  /\ pc' = "returned"
  /\ UNCHANGED <<graphVars, disk, orderVars, idx, vidx, ctxVars, report, calls, writes>>

\* commands/pipeline.rs, execute_pipeline lines 58-92: an Ok is passed on, an Err
\* becomes a report of its own.
CommandReply(r) ==
  IF r.ok THEN r.val[1]
  ELSE [success |-> FALSE,
        message |-> <<"Pipeline execution failed: ">> \o Display(r.err[1]),
        outputs |-> EmptyMap,
        vmaf_results |-> None]

ExecutePipelineReturn ==
  /\ pc = "returned"
  /\ report' = Some(CommandReply(ret[1]))
  /\ pc' = "done"
  /\ UNCHANGED <<graphVars, disk, orderVars, idx, vidx, ctxVars, ret, calls, writes>>

\* ------------------------------------------------------------ initial states
FileA == Path("a", "mp4")
FileB == Path("b", "mp4")
FileGone == Path("gone", "mp4")
InitialDisk == {FileA, FileB}

NodeName(i) == "n" \o ToString(i)

EmptyData ==
  [filePath |-> None, startTime |-> None, endTime |-> None, outputPath |-> None,
   format |-> None, referenceVideoPath |-> None, testVideoPath |-> None]

Kind(node_type, data) == [node_type |-> node_type, data |-> data]

\* The node kinds and configurations the executor runs are drawn from.
ExecKinds ==
  {Kind("inputVideo", [EmptyData EXCEPT !.filePath = Some(f)]) : f \in {FileA, FileB, FileGone}}
  \cup {Kind("trimVideo", [EmptyData EXCEPT !.startTime = Some(50), !.endTime = Some(100)])}
  \cup {Kind("convertVideo", EmptyData), Kind("viewVideo", EmptyData),
        Kind("blurVideo", EmptyData)}
  \cup {Kind("vmafAnalysis", EmptyData),
        Kind("vmafAnalysis", [EmptyData EXCEPT !.referenceVideoPath = Some(FileA),
                                               !.testVideoPath = Some(FileB)])}

ExecHandles == {"video-input", "reference-input"}

\* The node lists with k nodes named n1..nk, each of a kind of K.
NodeLists(k, K) ==
  {[i \in 1..k |-> [id |-> NodeName(i), node_type |-> f[i].node_type, data |-> f[i].data]] :
     f \in [1..k -> K]}

Connection(from, to, to_handle) == [from |-> from, to |-> to, to_handle |-> to_handle]

ConnectionsOver(ends, handles) ==
  {Connection(f, t, h) : f \in ends, t \in ends, h \in handles}

\* The state execute starts from: the pipeline as received, an empty context.
FreshRun ==
  /\ disk = InitialDisk
  /\ pc = "start"
  /\ in_degree = EmptyMap
  /\ adj_list = EmptyMap
  /\ queue = <<>>
  /\ ordered_nodes = <<>>
  /\ underflow = FALSE
  /\ idx = 0
  /\ vidx = 0
  /\ results = EmptyMap
  /\ vmaf_results = EmptyMap
  /\ trim_data = EmptyMap
  /\ ret = None
  /\ report = None
  /\ calls = <<>>
  /\ writes = <<>>
  /\ first_run = None
  /\ spectrum = IdleSpectrum

Init ==
  /\ nodes \in UNION {NodeLists(k, ExecKinds) : k \in 0..MaxNodes}
  /\ connections \in SeqsUpTo(ConnectionsOver(NodeIds, ExecHandles), MaxConns)
  /\ FreshRun

Next ==
  \/ BuildGraph
  \/ KahnStep
  \/ CycleDetected
  \/ OrderReady
  \/ DispatchStep
  \/ Phase1Done
  \/ VmafStep
  \/ BuildResult
  \/ ExecutePipelineReturn

Spec == Init /\ [][Next]_vars


\* execute is one async fn that nothing else runs beside: once called it takes its next
\* step whenever it has one (each Media Backend call is taken to return).
\* The graphs are those of up to MaxNodes nodes (a source on a file that exists or not,
\* a conversion, a VMAF node with explicit paths) and MaxConns connections.
TermKinds ==
  {Kind("inputVideo", [EmptyData EXCEPT !.filePath = Some(f)]) : f \in {FileA, FileGone}}
  \cup {Kind("convertVideo", EmptyData),
        Kind("vmafAnalysis", [EmptyData EXCEPT !.referenceVideoPath = Some(FileA),
                                               !.testVideoPath = Some(FileB)])}

InitTerm ==
  /\ nodes \in UNION {NodeLists(k, TermKinds) : k \in 0..MaxNodes}
  /\ connections \in SeqsUpTo(ConnectionsOver(NodeIds, {"video-input"}), MaxConns)
  /\ FreshRun

FairSpec == InitTerm /\ [][Next]_vars /\ WF_vars(Next)

\* --------------------------------------------- the resolver on its own graphs
\* calculate_execution_order reads the ids and the connections only: here every node
\* is a source, and a connection may name an id ("nx") that is no node.
OrderKinds == {Kind("inputVideo", [EmptyData EXCEPT !.filePath = Some(FileA)])}

InitOrder ==
  /\ nodes \in UNION {NodeLists(k, OrderKinds) : k \in 0..OrdNodes}
  /\ connections \in SeqsUpTo(ConnectionsOver(NodeIds \cup {"nx"}, {"video-input"}), OrdConns)
  /\ FreshRun

NextOrder ==
  \/ BuildGraph
  \/ KahnStep
  \/ CycleDetected
  \/ OrderReady

SpecOrder == InitOrder /\ [][NextOrder]_vars

\* ------------------------------------------ the context under arbitrary writes
CtxIds == {"n1", "n2"}
CtxVideos == {ProbeVideo(FileA), ProbeVideo(FileB)}
CtxPaths == {FileA, FileB}
CtxTimes == {0, 50, 100}

InitCtx ==
  /\ nodes = <<>>
  /\ connections = <<>>
  /\ disk = InitialDisk
  /\ pc = "ctx"
  /\ in_degree = EmptyMap
  /\ adj_list = EmptyMap
  /\ queue = <<>>
  /\ ordered_nodes = <<>>
  /\ underflow = FALSE
  /\ idx = 0
  /\ vidx = 0
  /\ results = EmptyMap
  /\ vmaf_results = EmptyMap
  /\ trim_data = EmptyMap
  /\ ret = None
  /\ report = None
  /\ calls = <<>>
  /\ writes = <<>>
  /\ first_run = None
  /\ spectrum = IdleSpectrum

CtxUnchanged == <<graphVars, disk, pc, orderVars, idx, vidx, ret, report, calls>>

CtxAddResult ==
  /\ pc = "ctx"
  /\ Len(writes) < MaxOps
  /\ \E id \in CtxIds, v \in CtxVideos :
       /\ results' = add_result(results, id, v)
       /\ writes' = Append(writes, [op |-> "add_result", id |-> id, video_data |-> v])
  /\ UNCHANGED <<CtxUnchanged, vmaf_results, trim_data>>

CtxAddTrimData ==
  /\ pc = "ctx"
  /\ Len(writes) < MaxOps
  /\ \E p \in CtxPaths, s \in CtxTimes, e \in CtxTimes :
       /\ trim_data' = add_trim_data(trim_data, p, s, e)
       /\ writes' = Append(writes, [op |-> "add_trim_data", path |-> p,
                                    start_time |-> s, end_time |-> e])
  /\ UNCHANGED <<CtxUnchanged, results, vmaf_results>>

CtxAddVmafResult ==
  /\ pc = "ctx"
  /\ Len(writes) < MaxOps
  /\ \E id \in CtxIds :
       LET score == VmafScore(FileA, FileB) IN
       /\ vmaf_results' = add_vmaf_result(vmaf_results, id, score)
       /\ writes' = Append(writes, [op |-> "add_vmaf_result", id |-> id, vmaf_score |-> score])
  /\ UNCHANGED <<CtxUnchanged, results, trim_data>>

NextCtx ==
  \/ CtxAddResult
  \/ CtxAddTrimData
  \/ CtxAddVmafResult

SpecCtx == InitCtx /\ [][NextCtx]_vars

\* ------------------------------------------------------- execute, called twice
\* commands/pipeline.rs builds a new PipelineExecutor for every call of execute_pipeline
\* and execute starts from ExecutionContext::new() (mod.rs line 59): a second call on
\* the same pipeline starts from an empty context and an empty resolver state.  The
\* disk is put back to what it was before the first call, and the first call's report
\* and invocations are kept in first_run.
ExecuteAgain ==
  /\ pc = "done"
  /\ first_run = None
  /\ first_run' = Some([report |-> report[1], calls |-> calls])
  /\ disk' = InitialDisk
  /\ pc' = "start"
  /\ in_degree' = EmptyMap
  /\ adj_list' = EmptyMap
  /\ queue' = <<>>
  /\ ordered_nodes' = <<>>
  /\ underflow' = FALSE
  /\ idx' = 0
  /\ vidx' = 0
  /\ results' = EmptyMap
  /\ vmaf_results' = EmptyMap
  /\ trim_data' = EmptyMap
  /\ ret' = None
  /\ report' = None
  /\ calls' = <<>>
  /\ writes' = <<>>
  /\ UNCHANGED <<nodes, connections, spectrum>>

NextTwice ==
  \/ Next
  \/ ExecuteAgain

\* Graphs of up to TwiceNodes nodes and TwiceConns connections on "video-input": the
\* source a.mp4, a trim, a conversion (whose output is a_converted.mp4), a source
\* reading the location the conversion writes, and a VMAF node.
FileConverted == Path("a_converted", "mp4")

TwiceKinds ==
  {Kind("inputVideo", [EmptyData EXCEPT !.filePath = Some(f)]) : f \in {FileA, FileConverted}}
  \cup {Kind("trimVideo", [EmptyData EXCEPT !.startTime = Some(50), !.endTime = Some(100)]),
        Kind("convertVideo", EmptyData),
        Kind("vmafAnalysis", EmptyData)}

InitTwice ==
  /\ nodes \in UNION {NodeLists(k, TwiceKinds) : k \in 0..TwiceNodes}
  /\ connections \in SeqsUpTo(ConnectionsOver(NodeIds, {"video-input"}), TwiceConns)
  /\ FreshRun

SpecTwice == InitTwice /\ [][NextTwice]_vars

\* Two sources n1 (a.mp4) and n2 (a.mp4 or b.mp4) and two nodes n3 and n4, each a trim,
\* a conversion or a frame extraction, with up to RaceConns connections into n3 and n4
\* on "video-input": with both sources on one file, a trim and a transform may read
\* the same location through different source nodes.
RaceKinds ==
  {Kind("trimVideo", [EmptyData EXCEPT !.startTime = Some(50), !.endTime = Some(100)]),
   Kind("convertVideo", EmptyData),
   Kind("sequenceExtract", EmptyData)}

InitRace ==
  /\ \E f \in {FileA, FileB}, third \in RaceKinds, fourth \in RaceKinds :
       nodes = <<[id |-> "n1", node_type |-> "inputVideo",
                  data |-> [EmptyData EXCEPT !.filePath = Some(FileA)]],
                 [id |-> "n2", node_type |-> "inputVideo",
                  data |-> [EmptyData EXCEPT !.filePath = Some(f)]],
                 [id |-> "n3", node_type |-> third.node_type, data |-> third.data],
                 [id |-> "n4", node_type |-> fourth.node_type, data |-> fourth.data]>>
  /\ connections \in
       SeqsUpTo({Connection(f, t, "video-input") : f \in NodeIds, t \in {"n3", "n4"}},
                RaceConns)
  /\ FreshRun

SpecRace == InitRace /\ [][NextTwice]_vars

\* ------------------------------------------------------- spectrum analysis
\* services/ffmpeg/audio_spectrum.rs.  The commands start_spectrum_analysis and
\* stop_spectrum_analysis are async Tauri commands on the one service of the
\* application state: several may be in progress at once.  Each is cut at its accesses
\* to the shared flag, each analysis thread at the points between which it does not
\* look at the flag.
\*   command: "clear" (line 171, called from line 90 by start) -> "grace" (the sleep of
\*            line 173) -> for start: "set" (line 93) -> "spawn" (line 99) -> "returned"
\*   thread:  "check" (the loop condition, line 127) -> "read" (line 131) -> "sleep"
\*            (line 157) -> "check" ... -> "stopped" (the loop is left, or was never
\*            entered because ffmpeg could not be started, line 119)
SpectrumCommand(op, at) == [op |-> op, pc |-> at]

Invoke(op) ==
  /\ Len(spectrum.commands) < MaxCommands
  /\ spectrum' = [spectrum EXCEPT !.commands = Append(@, SpectrumCommand(op, "clear"))]

\* A command is received.
start_spectrum_analysis == Invoke("start")
stop_spectrum_analysis == Invoke("stop")

\* Line 171: *self.is_analyzing.lock().unwrap() = false
ClearFlag(c) ==
  /\ spectrum.commands[c].pc = "clear"
  /\ spectrum' = [spectrum EXCEPT !.is_analyzing = FALSE, !.commands[c].pc = "grace"]

\* Lines 172-174: the 100 ms sleep is over; stop returns, start goes on at line 92.
GraceOver(c) ==
  /\ spectrum.commands[c].pc = "grace"
  /\ spectrum' = [spectrum EXCEPT !.commands[c].pc =
                                   IF spectrum.commands[c].op = "stop" THEN "returned" ELSE "set"]

\* Line 93: *is_analyzing.lock().unwrap() = true
SetFlag(c) ==
  /\ spectrum.commands[c].pc = "set"
  /\ spectrum' = [spectrum EXCEPT !.is_analyzing = TRUE, !.commands[c].pc = "spawn"]

\* Lines 99-166: thread::spawn; the command returns Ok.  The thread starts ffmpeg
\* and comes to the loop, or panics in expect when ffmpeg cannot be started.
SpawnThread(c) ==
  /\ spectrum.commands[c].pc = "spawn"
  /\ \E first \in {"check", "stopped"} :
       spectrum' = [spectrum EXCEPT !.threads = Append(@, first),
                                    !.commands[c].pc = "returned"]

\* Line 127: while *is_analyzing_clone.lock().unwrap()
ThreadCheck(t) ==
  /\ spectrum.threads[t] = "check"
  /\ spectrum' = [spectrum EXCEPT !.threads[t] =
                                   IF spectrum.is_analyzing THEN "read" ELSE "stopped"]

\* Lines 131-154: the blocking read returns a frame (or part of one), the end of the
\* stream or an error; the last two leave the loop.
ThreadRead(t) ==
  /\ spectrum.threads[t] = "read"
  /\ \E next \in {"sleep", "stopped"} :
       spectrum' = [spectrum EXCEPT !.threads[t] = next]

\* Line 157: thread::sleep(update_interval_ms) is over.
ThreadSleep(t) ==
  /\ spectrum.threads[t] = "sleep"
  /\ spectrum' = [spectrum EXCEPT !.threads[t] = "check"]

SpectrumUnchanged ==
  UNCHANGED <<nodes, connections, first_run, disk, pc, orderVars, idx, vidx, ctxVars,
              ret, report, calls, writes>>

CommandStep ==
  \E c \in DOMAIN spectrum.commands :
    ClearFlag(c) \/ GraceOver(c) \/ SetFlag(c) \/ SpawnThread(c)

ThreadStep ==
  \E t \in DOMAIN spectrum.threads :
    ThreadCheck(t) \/ ThreadRead(t) \/ ThreadSleep(t)

NextSpectrum ==
  \/ start_spectrum_analysis /\ SpectrumUnchanged
  \/ stop_spectrum_analysis /\ SpectrumUnchanged
  \/ CommandStep /\ SpectrumUnchanged
  \/ ThreadStep /\ SpectrumUnchanged

\* No pipeline is run: the service alone, as AppState holds it after start-up.
InitSpectrum ==
  /\ nodes = <<>>
  /\ connections = <<>>
  /\ FreshRun

SpecSpectrum == InitSpectrum /\ [][NextSpectrum]_vars

\* -------------------------------------------------- trim and transform graphs
\* The handle each handler resolves its input on (node_handlers.rs: "audio-input" in
\* handle_trim_audio and handle_convert_audio, "video-input" in the others).
InputHandleOf(node_type) ==
  IF node_type \in {"trimAudio", "convertAudio"} THEN "audio-input" ELSE "video-input"

\* Graphs wired the way the handlers read them: n1 is a source, every later node takes
\* its input from n1 or from the node before it, and may have a second inbound
\* connection from n2 on a handle no handler reads, which only orders it after n2
\* (n2 -> n2 is a cycle).  The input connections come first in the connection list.
WiredGraph(k, first, kind, from_first, extra) ==
  LET later == [i \in 1..(k - 1) |-> i + 1]
      after_n2(i) == extra[i]
      ordered == SelectSeq(later, after_n2) IN
  [nodes |-> [i \in 1..k |->
                IF i = 1
                  THEN [id |-> NodeName(1), node_type |-> first.node_type, data |-> first.data]
                  ELSE [id |-> NodeName(i), node_type |-> kind[i].node_type,
                        data |-> kind[i].data]],
   connections |->
      [i \in 1..(k - 1) |->
         Connection(IF from_first[i + 1] THEN NodeName(1) ELSE NodeName(i),
                    NodeName(i + 1), InputHandleOf(kind[i + 1].node_type))]
      \o [j \in 1..Len(ordered) |->
            Connection(NodeName(2), NodeName(ordered[j]), "trim-input")]]

\* execute is entered with one of these graphs of up to max_nodes nodes.
WiredRun(max_nodes, first_kinds, other_kinds) ==
  /\ \E k \in 1..max_nodes :
       \E first \in first_kinds, kind \in [2..k -> other_kinds],
          from_first \in [2..k -> BOOLEAN], extra \in [2..k -> BOOLEAN] :
            LET g == WiredGraph(k, first, kind, from_first, extra) IN
            /\ nodes = g.nodes
            /\ connections = g.connections
  /\ FreshRun

RangeSources == {Kind("inputVideo", [EmptyData EXCEPT !.filePath = Some(FileA)])}

RangeKinds ==
  {Kind("trimVideo", [EmptyData EXCEPT !.startTime = Some(50), !.endTime = Some(100)]),
   Kind("trimAudio", [EmptyData EXCEPT !.endTime = Some(50)]),
   Kind("convertVideo", EmptyData),
   Kind("convertAudio", EmptyData),
   Kind("sequenceExtract", EmptyData),
   Kind("viewVideo", EmptyData)}

InitRange == WiredRun(RangeNodes, RangeSources, RangeKinds)

SpecRange == InitRange /\ [][Next]_vars

\* ---------------------------------------------------------- trim windows
\* 24 hours in tenths of a second: the longest trim VideoTrimmingService accepts
\* (video_trimming.rs line 135: 3600.0 * 24.0 seconds).
MaxTrimDuration == 864000

\* Trim nodes over the windows around the limits of the validation: a negative start,
\* an end 0 and 0.1 s after the start, and a length of 24 hours and of 0.1 s more.
WindowKinds ==
  {Kind("trimVideo", [EmptyData EXCEPT !.startTime = Some(st), !.endTime = Some(en)]) :
     st \in {-1, 0, 50}, en \in {50, 51, MaxTrimDuration, MaxTrimDuration + 1}}
  \cup {Kind("convertVideo", EmptyData)}

InitWindow == WiredRun(WindowNodes, RangeSources, WindowKinds)

SpecWindow == InitWindow /\ [][Next]_vars

\* ------------------------------------------------------ pass-through chains
ChainKinds ==
  {Kind("trimVideo", [EmptyData EXCEPT !.startTime = Some(50), !.endTime = Some(100)]),
   Kind("convertVideo", EmptyData),
   Kind("viewVideo", EmptyData),
   Kind("gridView", EmptyData),
   Kind("spectrumAnalyzer", EmptyData)}

InitChain == WiredRun(ChainNodes, RangeSources, ChainKinds)

SpecChain == InitChain /\ [][Next]_vars

\* -------------------------------------------------------- comparison graphs
\* A source n1, a node n2 that is a source or a VMAF node without inputs, and a VMAF
\* node n3, with or without explicit paths in its
\* data (a pair the connections cannot yield, a pair with a missing file, a reference
\* alone), and up to VmafConns connections into n3 from any of the three nodes, on two
\* recognized handle names and two others.
VmafSources ==
  {Kind("inputVideo", [EmptyData EXCEPT !.filePath = Some(f)]) : f \in {FileA, FileB}}

VmafKinds ==
  {Kind("vmafAnalysis", EmptyData),
   Kind("vmafAnalysis", [EmptyData EXCEPT !.referenceVideoPath = Some(FileB),
                                          !.testVideoPath = Some(FileA)]),
   Kind("vmafAnalysis", [EmptyData EXCEPT !.referenceVideoPath = Some(FileA),
                                          !.testVideoPath = Some(FileGone)]),
   Kind("vmafAnalysis", [EmptyData EXCEPT !.referenceVideoPath = Some(FileA)])}

VmafHandles == {"reference-input", "distorted-input", "video-input", "input-b"}

InitVmaf ==
  /\ \E second \in VmafSources \cup {Kind("vmafAnalysis", EmptyData)}, third \in VmafKinds :
       nodes = <<[id |-> "n1", node_type |-> "inputVideo",
                  data |-> [EmptyData EXCEPT !.filePath = Some(FileA)]],
                 [id |-> "n2", node_type |-> second.node_type, data |-> second.data],
                 [id |-> "n3", node_type |-> third.node_type, data |-> third.data]>>
  /\ connections \in
       SeqsUpTo({Connection(f, "n3", h) : f \in {"n1", "n2", "n3"}, h \in VmafHandles},
                VmafConns)
  /\ FreshRun

SpecVmaf == InitVmaf /\ [][Next]_vars

\* ------------------------------------------------- vocabulary of the claims
\* The directed edges the connections draw, and their transitive closure.
Edges == {<<connections[i].from, connections[i].to>> : i \in DOMAIN connections}

Compose(R) == {<<q[1][1], q[2][2]>> : q \in {r \in R \X R : r[1][2] = r[2][1]}}

RECURSIVE Closure(_, _)
Closure(R, k) == IF k = 0 THEN R ELSE Closure(R \cup Compose(R), k - 1)

\* The edges between nodes of the graph; a directed cycle among the nodes.
NodeEdges == {e \in Edges : e[1] \in NodeIds /\ e[2] \in NodeIds}
HasCycle == \E e \in Closure(NodeEdges, Len(connections)) : e[1] = e[2]

ConnectionsNameNodes ==
  \A i \in DOMAIN connections :
    connections[i].from \in NodeIds /\ connections[i].to \in NodeIds

UniqueIds == \A i, j \in DOMAIN nodes : nodes[i].id = nodes[j].id => i = j

Occurrences(seq, x) == Cardinality({i \in DOMAIN seq : seq[i] = x})
Pos(seq, x) == SetMin({i \in DOMAIN seq : seq[i] = x})

\* The last write of kind op in `writes` that satisfies the test, as an Option.
LastWrite(op, Test(_)) ==
  LET m == {i \in DOMAIN writes : writes[i].op = op /\ Test(writes[i])} IN
  IF m = {} THEN None ELSE Some(writes[CHOOSE i \in m : \A j \in m : j <= i])

\* calculate_execution_order has returned an order (and not the circular error).
OrderReturned == pc \notin {"start", "kahn", "ctx"} /\ ret # Some(Err(CircularError))

Contains(msg, token) == \E i \in DOMAIN msg : msg[i] = token

NodeTypeOf(node_id) == FindNode(node_id).node_type

OrdinaryNodes == {i \in DOMAIN nodes : nodes[i].node_type # "vmafAnalysis"}
VmafNodes == {i \in DOMAIN nodes : nodes[i].node_type = "vmafAnalysis"}

\* The artifact map as the add_result calls of phase 1 built it.
ArtifactsWritten ==
  LET ids == {writes[i].id : i \in {j \in DOMAIN writes : writes[j].op = "add_result"}} IN
  [id \in ids |->
     LET m == {j \in DOMAIN writes : writes[j].op = "add_result" /\ writes[j].id = id} IN
     writes[CHOOSE j \in m : \A k \in m : k <= j].video_data]

\* ------------------------------------------------------------------- claims

\* C1: for every acyclic graph with unique node ids whose connections all name
\* existing nodes, calculate_execution_order does not fail, and the order it returns
\* holds every node id exactly once and lists `from` before `to` for every
\* connection, whatever order the zero-in-degree nodes were seeded in.
C1_TopologicalOrder ==
  (UniqueIds /\ ConnectionsNameNodes /\ ~HasCycle) =>
    /\ ret # Some(Err(CircularError))
    /\ OrderReturned =>
         /\ \A n \in NodeIds : Occurrences(ordered_nodes, n) = 1
         /\ Len(ordered_nodes) = Len(nodes)
         /\ \A i \in DOMAIN connections :
              Pos(ordered_nodes, connections[i].from) < Pos(ordered_nodes, connections[i].to)

\* An order was returned for a graph of three nodes with a fork (two connections out
\* of one node) and a chain.
C1_Witness ==
  /\ OrderReturned
  /\ Len(nodes) = 3
  /\ Len(connections) = 3
  /\ ConnectionsNameNodes
  /\ ~HasCycle
  /\ Cardinality(Edges) = 3

\* C8: get_result(id) returns the video data of the last add_result(id, _), whatever
\* was written under other ids or into the trim and VMAF maps since; it fails for an
\* id never written.
C8_GetAfterAdd ==
  \A id \in CtxIds \cup {"n9"} :
    LET OnId(w) == w.id = id
        last == LastWrite("add_result", OnId) IN
    IF last = None
      THEN ~get_result(results, id).ok
      ELSE get_result(results, id) = Ok(last[1].video_data)

\* n1 was written, then other keys and maps were written, and n1 still reads back.
C8_Witness ==
  /\ Len(writes) >= 3
  /\ writes[1].op = "add_result"
  /\ writes[1].id = "n1"
  /\ \A i \in 2..Len(writes) : writes[i].op = "add_result" => writes[i].id # "n1"
  /\ \E i \in 2..Len(writes) : writes[i].op # "add_result"
  /\ \E i \in 2..Len(writes) : writes[i].op = "add_result"
  /\ get_result(results, "n1") = Ok(writes[1].video_data)

\* C9: get_trim_data(loc) returns {s, e, e - s} of the last add_trim_data(loc, s, e):
\* a second write replaces the first as a whole, writes to other locations leave it
\* alone, and a location never written fails.
C9_TrimRoundTrip ==
  \A p \in CtxPaths \cup {FileGone} :
    LET OnPath(w) == w.path = p
        last == LastWrite("add_trim_data", OnPath) IN
    IF last = None
      THEN ~get_trim_data(trim_data, p).ok
      ELSE get_trim_data(trim_data, p) =
             Ok([start_time |-> last[1].start_time, end_time |-> last[1].end_time,
                 duration |-> last[1].end_time - last[1].start_time])

\* A location was annotated twice with different windows and another location once.
C9_Witness ==
  \E i, j, k \in DOMAIN writes :
    /\ i < j
    /\ writes[i].op = "add_trim_data"
    /\ writes[j].op = "add_trim_data"
    /\ writes[k].op = "add_trim_data"
    /\ writes[i].path = FileA
    /\ writes[j].path = FileA
    /\ writes[k].path = FileB
    /\ writes[i].start_time # writes[j].start_time
    /\ writes[i].end_time # writes[j].end_time
    /\ get_trim_data(trim_data, FileA).ok
    /\ get_trim_data(trim_data, FileA).val[1].start_time = writes[j].start_time

\* C2: for every graph with a cycle among its nodes (a self-loop included, nodes
\* outside the cycle included) no node handler and no VMAF processing is ever
\* invoked, neither phase is entered, and the run ends in a report with
\* success = false, no artifacts and the circular-dependency message.
C2_CycleRejected ==
  HasCycle =>
    /\ calls = <<>>
    /\ pc \notin {"dispatch", "vmaf"}
    /\ pc = "done" =>
         /\ ~report[1].success
         /\ report[1].outputs = EmptyMap
         /\ report[1].vmaf_results = None
         /\ Contains(report[1].message, "Circular dependency detected in pipeline")

\* A run over a graph with a cycle and a node outside it, which was put in the order,
\* has ended.
C2_Witness ==
  /\ pc = "done"
  /\ HasCycle
  /\ Len(nodes) = 3
  /\ Len(ordered_nodes) >= 1

\* C3: once the handler of an ordinary node has returned an error, no handler and no
\* VMAF processing is invoked any more: the failed invocation stays the last one.
C3_FailFast ==
  \A i \in DOMAIN calls :
    (calls[i].op = "process" /\ ~calls[i].ok) =>
      /\ i = Len(calls)
      /\ pc \in {"returned", "done"}

\* A handler failed after another one had succeeded, with a node later in the order
\* and a VMAF node left unprocessed.
C3_Witness ==
  /\ pc = "done"
  /\ Len(calls) = 2
  /\ calls[1].ok
  /\ ~calls[2].ok
  /\ idx < Len(ordered_nodes)
  /\ VmafNodes # {}

\* C4 as stated: every report with success = false has an empty artifact map, no
\* comparison results and a message naming a node's id and kind.
C4_Original ==
  (pc = "done" /\ ~report[1].success) =>
    /\ report[1].outputs = EmptyMap
    /\ report[1].vmaf_results = None
    /\ \E i \in DOMAIN nodes :
         /\ Contains(report[1].message, nodes[i].id)
         /\ Contains(report[1].message, nodes[i].node_type)

\* C4 (amended): a report with success = false has an empty artifact map.  If an
\* ordinary node's handler failed, the report has no comparison results and its
\* message names that node's id and kind and ends with the error's text, whatever the
\* context held by then.  If the graph was rejected as circular, the report has no
\* comparison results and names no node.  Otherwise the run completed without
\* storing an artifact; the report names no node and may carry comparison results.
C4_FailureReport ==
  (pc = "done" /\ ~report[1].success) =>
    /\ report[1].outputs = EmptyMap
    /\ IF calls # <<>> /\ calls[Len(calls)].op = "process" /\ ~calls[Len(calls)].ok
         THEN LET last == calls[Len(calls)]
                  text == Display(last.err[1])
                  msg == report[1].message IN
              /\ report[1].vmaf_results = None
              /\ Contains(msg, last.node)
              /\ Contains(msg, NodeTypeOf(last.node))
              /\ Len(msg) > Len(text)
              /\ SubSeq(msg, Len(msg) - Len(text) + 1, Len(msg)) = text
         ELSE IF ret = Some(Err(CircularError))
           THEN /\ report[1].vmaf_results = None
                /\ \A i \in DOMAIN nodes : ~Contains(report[1].message, nodes[i].id)
           ELSE /\ results = EmptyMap
                /\ \A i \in DOMAIN nodes : ~Contains(report[1].message, nodes[i].id)

\* A handler failed after an artifact and a trim annotation had been stored.
C4_Witness ==
  /\ pc = "done"
  /\ ~report[1].success
  /\ results # EmptyMap
  /\ trim_data # EmptyMap
  /\ ~calls[Len(calls)].ok
  /\ calls[Len(calls)].op = "process"

C6_TwoPhases ==
  \A i \in DOMAIN calls :
    /\ calls[i].op = "vmaf" =>
         \A n \in OrdinaryNodes : \E j \in 1..(i - 1) :
            calls[j].op = "process" /\ calls[j].node = nodes[n].id /\ calls[j].ok
    /\ calls[i].op = "process" => NodeTypeOf(calls[i].node) # "vmafAnalysis"

\* A VMAF node was processed after two ordinary nodes had been dispatched.
C6_Witness ==
  /\ Len(calls) = 3
  /\ calls[3].op = "vmaf"
  /\ calls[1].op = "process"
  /\ calls[2].op = "process"
  /\ calls[3].ok

\* C7: for every connection from -> to between nodes, the processing of `to` begins
\* only after the processing of `from` has completed, whatever the kinds of the two.
C7_AvailabilityBeforeConsumption ==
  \A c \in DOMAIN connections :
    (connections[c].from \in NodeIds /\ connections[c].to \in NodeIds) =>
      \A i \in DOMAIN calls :
        calls[i].node = connections[c].to =>
          \E j \in 1..(i - 1) : calls[j].node = connections[c].from

\* C10: an artifact is stored at most once per node id during a run, so add_result
\* never replaces an entry of the context.
C10_SingleProducer ==
  \A i, j \in DOMAIN writes :
    (writes[i].op = "add_result" /\ writes[j].op = "add_result" /\ i # j) =>
      writes[i].id # writes[j].id

\* A run stored the artifacts of three nodes, one of them a pass-through of another.
C10_Witness ==
  /\ pc = "done"
  /\ Cardinality(DOMAIN results) = 3
  /\ \E a, b \in DOMAIN results : a # b /\ results[a] = results[b]

\* One step of a run, seen from the context: no key leaves any of the three maps, no
\* artifact and no VMAF result changes, and an annotation changes only in a step that
\* writes its location.
ContextGrows ==
  /\ DOMAIN results \subseteq DOMAIN results'
  /\ \A id \in DOMAIN results : results'[id] = results[id]
  /\ DOMAIN vmaf_results \subseteq DOMAIN vmaf_results'
  /\ \A id \in DOMAIN vmaf_results : vmaf_results'[id] = vmaf_results[id]
  /\ DOMAIN trim_data \subseteq DOMAIN trim_data'
  /\ \A p \in DOMAIN trim_data :
       trim_data'[p] # trim_data[p] =>
         \E i \in (Len(writes) + 1)..Len(writes') :
            writes'[i].op = "add_trim_data" /\ writes'[i].path = p

\* C11: the context is empty when execute starts, and across every step of the run the
\* key sets of the artifacts, the VMAF results and the trim annotations only grow, a
\* stored artifact or VMAF result never changes, and an annotation changes only when
\* its location is written again.
C11_MonotonicContext ==
  /\ (results = EmptyMap /\ vmaf_results = EmptyMap /\ trim_data = EmptyMap)
  /\ [][ContextGrows]_vars

\* A run ended with an artifact, a trim annotation and a VMAF result in its context.
C11_Witness ==
  /\ pc = "done"
  /\ results # EmptyMap
  /\ trim_data # EmptyMap
  /\ vmaf_results # EmptyMap

\* C12: when no ordinary node failed, the report has success = true exactly if an
\* artifact was stored during the run, whatever the number of VMAF results and trim
\* annotations, and it carries the artifacts and the VMAF results of the context.
C12_SuccessIffArtifact ==
  (pc = "done" /\ ret[1].ok /\ \A i \in DOMAIN calls : calls[i].op = "process" => calls[i].ok) =>
    /\ report[1].success = (\E i \in DOMAIN writes : writes[i].op = "add_result")
    /\ report[1].outputs = results
    /\ report[1].vmaf_results = IF vmaf_results = EmptyMap THEN None ELSE Some(vmaf_results)

\* A run that stored a VMAF result and no artifact reported success = false.
C12_Witness ==
  /\ pc = "done"
  /\ ret[1].ok
  /\ vmaf_results # EmptyMap
  /\ results = EmptyMap
  /\ ~report[1].success
  /\ \E i \in DOMAIN calls : calls[i].op = "vmaf" /\ calls[i].ok

\* The invocations of the Media Backend that take a trim range.
TransformOps == {"convert_video", "convert_audio", "extract_frames", "extract_frames_with_trim"}

TrimTypes == {"trimVideo", "trimAudio"}

\* The window a trim node is configured with.
Window(node) ==
  <<extract_f64_or_default(node.data, "startTime", 0),
    extract_f64_or_default(node.data, "endTime", 600)>>

\* The successful trim invocations on location loc among the first n calls.
TrimCallsOn(loc, n) ==
  {j \in 1..n : /\ calls[j].ok
                /\ calls[j].inv # None
                /\ calls[j].inv[1].op = "trim"
                /\ calls[j].inv[1].input[1] = loc}

SetMax(S) == CHOOSE x \in S : \A y \in S : y <= x

\* C13: after a trim node with window (s, e) succeeded on an input with location L, the
\* context's annotation of L is {s, e, e - s} (that of the last such node), and every
\* conversion or frame extraction invoked later on an input with location L is given
\* exactly that window; an invocation on a location no trim node succeeded on before
\* is given no range.
C13_RangeReachesTransform ==
  /\ \A i \in DOMAIN calls :
       (calls[i].inv # None /\ calls[i].inv[1].op \in TransformOps) =>
         LET loc == calls[i].inv[1].input[1]
             prior == TrimCallsOn(loc, i - 1) IN
         IF prior = {}
           THEN calls[i].inv[1].trim = None
           ELSE calls[i].inv[1].trim = Some(Window(FindNode(calls[SetMax(prior)].node)))
  /\ \A j \in DOMAIN calls :
       (calls[j].ok /\ calls[j].inv # None /\ calls[j].inv[1].op = "trim") =>
         LET loc == calls[j].inv[1].input[1]
             w == Window(FindNode(calls[SetMax(TrimCallsOn(loc, Len(calls)))].node)) IN
         /\ loc \in DOMAIN trim_data
         /\ trim_data[loc] = [start_time |-> w[1], end_time |-> w[2], duration |-> w[2] - w[1]]

\* Scenario B: n1 a source, n2 a trim node of window (5 s, 10 s) on n1's artifact, n3 a
\* conversion of n1's artifact ordered after n2; the conversion was given (5 s, 10 s).
C13_Witness ==
  /\ pc = "done"
  /\ Len(nodes) = 3
  /\ nodes[2].node_type = "trimVideo"
  /\ nodes[3].node_type = "convertVideo"
  /\ connections = <<Connection("n1", "n2", "video-input"),
                     Connection("n1", "n3", "video-input"),
                     Connection("n2", "n3", "trim-input")>>
  /\ Len(calls) = 3
  /\ calls[3].node = "n3"
  /\ calls[3].ok
  /\ calls[3].inv[1].trim = Some(<<50, 100>>)
  /\ trim_data[FileA] = [start_time |-> 50, end_time |-> 100, duration |-> 50]

\* The step in which the handler of a trim node returned Ok.
TrimSucceeds ==
  /\ Len(calls') = Len(calls) + 1
  /\ calls'[Len(calls')].op = "process"
  /\ calls'[Len(calls')].ok
  /\ NodeTypeOf(calls'[Len(calls')].node) \in TrimTypes

\* What that step does to the context.
TrimEffect ==
  LET node == FindNode(calls'[Len(calls')].node)
      m == MatchingConnections(node.id, connections, InputHandleOf(node.node_type))
      loc == results[connections[SetMin(m)].from].path
      w == Window(node) IN
  /\ results' = results
  /\ vmaf_results' = vmaf_results
  /\ DOMAIN trim_data' = DOMAIN trim_data \cup {loc}
  /\ trim_data'[loc] = [start_time |-> w[1], end_time |-> w[2], duration |-> w[2] - w[1]]
  /\ \A p \in DOMAIN trim_data \ {loc} : trim_data'[p] = trim_data[p]
  /\ writes' = Append(writes, [op |-> "add_trim_data", path |-> loc,
                               start_time |-> w[1], end_time |-> w[2]])

\* C14: a trim node (trimVideo, trimAudio) that succeeds writes exactly one annotation,
\* under the location of its input artifact, and leaves the artifacts, the VMAF results
\* and the annotations of all other locations as they were; no artifact is ever stored
\* under the id of a trim node.
C14_RangeNodeEffect ==
  /\ [](\A i \in DOMAIN nodes :
          nodes[i].node_type \in TrimTypes => nodes[i].id \notin DOMAIN results)
  /\ [][TrimSucceeds => TrimEffect]_vars

\* The location of the source was annotated twice, with different windows, in a run
\* that stored two artifacts.
C14_Witness ==
  /\ pc = "done"
  /\ Cardinality(DOMAIN results) = 2
  /\ \E i, j \in DOMAIN writes :
       /\ i < j
       /\ writes[i].op = "add_trim_data"
       /\ writes[j].op = "add_trim_data"
       /\ writes[i].path = writes[j].path
       /\ writes[i].start_time # writes[j].start_time

\* The windows the claim lets a trim node accept.
WindowValid(w) == w[1] >= 0 /\ w[2] >= w[1] + 1 /\ w[2] - w[1] <= MaxTrimDuration

\* C15: a trim node succeeds only on a window with 0 <= start, end >= start + 0.1 s and
\* end - start <= 24 hours; on every other window its handler fails with
\* InvalidNodeConfig, no annotation with that window is registered, and the run ends
\* with the failure report of that node.
C15_WindowValidation ==
  \A i \in DOMAIN calls :
    (calls[i].op = "process" /\ NodeTypeOf(calls[i].node) \in TrimTypes) =>
      LET w == Window(FindNode(calls[i].node)) IN
      /\ calls[i].ok => WindowValid(w)
      /\ ~WindowValid(w) =>
           /\ ~calls[i].ok
           /\ calls[i].err[1].kind = "InvalidNodeConfig"
           /\ \A p \in DOMAIN trim_data :
                <<trim_data[p].start_time, trim_data[p].end_time>> # w
           /\ pc = "done" =>
                /\ ~report[1].success
                /\ Contains(report[1].message, calls[i].node)

PassTypes == {"viewVideo", "gridView", "spectrumAnalyzer"}

\* The node a node's input connection comes from.
InputSource(node_id) ==
  connections[SetMin(MatchingConnections(node_id, connections,
                                         InputHandleOf(NodeTypeOf(node_id))))].from

\* The node at the head of the chain of pass-through nodes that ends in node_id.
RECURSIVE Origin(_, _)
Origin(node_id, fuel) ==
  IF fuel > 0 /\ NodeTypeOf(node_id) \in PassTypes
    THEN Origin(InputSource(node_id), fuel - 1)
    ELSE node_id

\* C16: the artifact of a pass-through node (viewVideo, gridView, spectrumAnalyzer) is
\* that of its input, so a conversion whose input reaches back to a node S through a
\* chain of pass-through nodes is invoked on S's location and, when a trim node
\* annotated S's location before, with the window of the last such trim node.
C16_RangeSurvivesPassThrough ==
  /\ \A i \in DOMAIN nodes :
       (nodes[i].node_type \in PassTypes /\ nodes[i].id \in DOMAIN results) =>
         results[nodes[i].id] = results[InputSource(nodes[i].id)]
  /\ \A i \in DOMAIN calls :
       (calls[i].inv # None /\ calls[i].inv[1].op \in TransformOps) =>
         LET head == Origin(InputSource(calls[i].node), Len(nodes))
             loc == results[head].path
             prior == TrimCallsOn(loc, i - 1) IN
         /\ calls[i].inv[1].input = <<loc>>
         /\ prior # {} =>
              calls[i].inv[1].trim = Some(Window(FindNode(calls[SetMax(prior)].node)))

\* A conversion reached the source through a gridView and a spectrumAnalyzer node and
\* was given the window of the trim node on the source.
C16_Witness ==
  /\ pc = "done"
  /\ \E i \in DOMAIN calls :
       /\ calls[i].inv # None
       /\ calls[i].inv[1].op = "convert_video"
       /\ calls[i].ok
       /\ calls[i].inv[1].trim = Some(<<50, 100>>)
       /\ LET p1 == InputSource(calls[i].node)
              p2 == InputSource(p1) IN
          /\ NodeTypeOf(p1) = "spectrumAnalyzer"
          /\ NodeTypeOf(p2) = "gridView"
          /\ NodeTypeOf(InputSource(p2)) = "inputVideo"

\* The explicit paths of a VMAF node, when both are given and on disk.
ExplicitPair(node_id) == get_explicit_paths(FindNode(node_id), disk)

\* What a call record shows of an invocation of the comparison on (ref, test).
ComparedWith(call, ref, test) ==
  /\ call.inv = Some(Invocation("calculate_vmaf", <<ref, test>>, None))
  /\ call.ok =>
       /\ call.node \in DOMAIN vmaf_results
       /\ vmaf_results[call.node].reference_path = ref
       /\ vmaf_results[call.node].distorted_path = test

\* C17 as stated: whatever its inbound connections, none included, a VMAF node whose
\* data names a reference and a test file that both exist is compared on those two.
C17_Original ==
  \A i \in DOMAIN calls :
    (calls[i].op = "vmaf" /\ ExplicitPair(calls[i].node).ok) =>
      LET pair == ExplicitPair(calls[i].node).val[1] IN
      ComparedWith(calls[i], pair[1], pair[2])

\* C17 (amended): a VMAF node whose data names a reference and a test file that both
\* exist, and which has at least one inbound connection (of any handle, from any
\* node), is compared on exactly those two files and the score, if the comparison
\* succeeds, is stored under its id; without any inbound connection the processing
\* fails with InvalidNodeConfig before the explicit paths are read, and nothing is
\* invoked or stored.
C17_ExplicitPathsFirst ==
  \A i \in DOMAIN calls :
    (calls[i].op = "vmaf" /\ ExplicitPair(calls[i].node).ok) =>
      LET pair == ExplicitPair(calls[i].node).val[1] IN
      IF has_inputs(calls[i].node, connections)
        THEN ComparedWith(calls[i], pair[1], pair[2])
        ELSE /\ ~calls[i].ok
             /\ calls[i].err[1].kind = "InvalidNodeConfig"
             /\ calls[i].inv = None
             /\ calls[i].node \notin DOMAIN vmaf_results

\* The node names (b, a) and has n1 (a) on its reference handle and n2 (b) on its
\* distorted handle: (b, a) was compared and stored.
C17_Witness ==
  /\ pc = "done"
  /\ connections = <<Connection("n1", "n3", "reference-input"),
                     Connection("n2", "n3", "distorted-input")>>
  /\ {"n1", "n2"} \subseteq DOMAIN results
  /\ results["n1"].path = FileA
  /\ results["n2"].path = FileB
  /\ report[1].vmaf_results # None
  /\ "n3" \in DOMAIN report[1].vmaf_results[1]
  /\ report[1].vmaf_results[1]["n3"].reference_path = FileB
  /\ report[1].vmaf_results[1]["n3"].distorted_path = FileA

\* The inbound connections of a node on one set of handle names, in list order.
InboundOn(node_id, handles) ==
  SelectSeq(connections, LAMBDA c : c.to = node_id /\ c.to_handle \in handles)

\* C18: a VMAF node without usable explicit paths, with one inbound connection on a
\* reference handle and one on a test handle, is compared with the artifact of the
\* reference connection's source as the reference and that of the test connection's
\* source as the distorted file, wherever the two connections are in the list.
C18_HandlesDecideRoles ==
  \A i \in DOMAIN calls :
    LET v == calls[i].node
        refs == InboundOn(v, ReferenceHandles)
        tests == InboundOn(v, TestHandles) IN
    (/\ calls[i].op = "vmaf"
     /\ ~ExplicitPair(v).ok
     /\ Len(refs) = 1
     /\ Len(tests) = 1
     /\ {refs[1].from, tests[1].from} \subseteq DOMAIN results) =>
       calls[i].inv = Some(Invocation("calculate_vmaf",
                             <<results[refs[1].from].path, results[tests[1].from].path>>,
                             None))

InputTypes ==
  {"viewVideo", "gridView", "spectrumAnalyzer", "infoVideo", "trimVideo", "trimAudio",
   "convertVideo", "convertAudio", "sequenceExtract"}

\* The error kind the claim wants for a predecessor without artifact: one of its own.
IsMissingResultKind(kind) == kind # "InvalidNodeConfig"

\* C20: a handler that finds no connection on its input handle fails with
\* InvalidNodeConfig; one that finds the connection but no artifact of its source fails
\* with an error of another kind; either failure ends the run with a failure report.
C20_InputFailureKinds ==
  \A i \in DOMAIN calls :
    LET node == FindNode(calls[i].node)
        m == MatchingConnections(node.id, connections, InputHandleOf(node.node_type)) IN
    (/\ calls[i].op = "process"
     /\ ~calls[i].ok
     /\ node.node_type \in InputTypes
     /\ m = {} \/ connections[SetMin(m)].from \notin DOMAIN results) =>
       /\ m = {} => calls[i].err[1].kind = "InvalidNodeConfig"
       /\ m # {} => IsMissingResultKind(calls[i].err[1].kind)
       /\ i = Len(calls)
       /\ pc \in {"returned", "done"}
       /\ pc = "done" => ~report[1].success

\* The node types NodeHandlers::process has an arm for.
DispatchedTypes ==
  {"inputVideo", "inputAudio", "viewVideo", "trimVideo", "trimAudio", "convertVideo",
   "convertAudio", "sequenceExtract", "infoVideo", "gridView", "spectrumAnalyzer"}

\* The error kind the claim wants for an unrecognized node type: one no other failure has.
IsUnknownNodeKind(kind) == kind \notin {"InvalidNodeConfig", "FileNotFound", "FFmpegFailed"}

\* C21: the handler of a node whose type the dispatcher has no arm for fails with an
\* error kind of its own; the failure is the last invocation of the run, which ends in
\* a failure report naming the node, without any VMAF processing.
C21_UnknownNodeKind ==
  \A i \in DOMAIN calls :
    LET node == FindNode(calls[i].node) IN
    (calls[i].op = "process" /\ node.node_type \notin DispatchedTypes) =>
      /\ ~calls[i].ok
      /\ IsUnknownNodeKind(calls[i].err[1].kind)
      /\ i = Len(calls)
      /\ pc \in {"returned", "done"}
      /\ vmaf_results = EmptyMap
      /\ pc = "done" =>
           /\ ~report[1].success
           /\ Contains(report[1].message, node.id)
           /\ Contains(report[1].message, node.node_type)

\* C22: a handler whose input handle is occupied by two or more connections rejects
\* the lookup with an error instead of resolving it to one of them.
C22_AmbiguousInputRejected ==
  \A i \in DOMAIN calls :
    LET node == FindNode(calls[i].node)
        m == MatchingConnections(node.id, connections, InputHandleOf(node.node_type)) IN
    (/\ calls[i].op = "process"
     /\ node.node_type \in InputTypes
     /\ Cardinality(m) >= 2) =>
       ~calls[i].ok

\* C23: calculate_execution_order fails with the circular-dependency error only for a
\* graph with a directed cycle among its nodes; connections that name an id that is no
\* node, and connections listed twice, do not make an acyclic graph fail.
C23_CircularOnlyIfCycle ==
  ret = Some(Err(CircularError)) => HasCycle

\* A run under a Media Backend that fails no invocation.
NoBackendFailure(cs) ==
  \A i \in DOMAIN cs : cs[i].ok \/ cs[i].err[1].kind # "FFmpegFailed"

Locations(outputs) == [id \in DOMAIN outputs |-> outputs[id].path]

\* C24: a second run of execute on the same pipeline, from the same disk and an empty
\* context, under the same Media Backend, ends in a report with the same success flag,
\* the same artifact ids and locations and the same VMAF results as the first run,
\* whatever order each run's resolver picked.
C24_Idempotence ==
  (/\ pc = "done"
   /\ first_run # None
   /\ NoBackendFailure(calls)
   /\ NoBackendFailure(first_run[1].calls)) =>
     /\ report[1].success = first_run[1].report.success
     /\ Locations(report[1].outputs) = Locations(first_run[1].report.outputs)
     /\ report[1].vmaf_results = first_run[1].report.vmaf_results

ConversionTypes == {"convertVideo", "convertAudio"}

\* The run went through both phases: no handler of phase 1 failed.
NoHandlerFailed == \A i \in DOMAIN calls : calls[i].op = "process" => calls[i].ok

\* C25 as stated: every conversion and every frame extraction whose invocation of the
\* Media Backend succeeded has an artifact stored under its id, which is in the
\* artifact map of the final report.
C25_Original ==
  \A i \in DOMAIN calls :
    (/\ calls[i].op = "process"
     /\ calls[i].ok
     /\ NodeTypeOf(calls[i].node) \in ConversionTypes \cup {"sequenceExtract"}) =>
       /\ calls[i].node \in DOMAIN results
       /\ pc = "done" => calls[i].node \in DOMAIN report[1].outputs

\* C25 (amended): a conversion (convertVideo, convertAudio) whose invocation of the
\* Media Backend succeeded has its output stored under its id, and the final report's
\* artifact map holds it if no handler failed later in the run (a failure report has no
\* artifacts); a frame extraction whose invocation succeeded stores no artifact and is
\* in no report's artifact map.
C25_TransformArtifacts ==
  \A i \in DOMAIN calls :
    (calls[i].op = "process" /\ calls[i].ok) =>
      LET id == calls[i].node IN
      /\ NodeTypeOf(id) \in ConversionTypes =>
           /\ calls[i].inv # None
           /\ id \in DOMAIN results
           /\ results[id].path \in disk
           /\ pc = "done" =>
                IF NoHandlerFailed
                  THEN /\ report[1].success
                       /\ id \in DOMAIN report[1].outputs
                       /\ report[1].outputs[id] = results[id]
                  ELSE report[1].outputs = EmptyMap
      /\ NodeTypeOf(id) = "sequenceExtract" =>
           /\ calls[i].inv # None
           /\ id \notin DOMAIN results
           /\ pc = "done" => id \notin DOMAIN report[1].outputs

\* A run of a video conversion, an audio conversion and a frame extraction on the
\* source's artifact, all successful: the report holds the two conversions' outputs and
\* nothing for the extraction.
C25_Witness ==
  /\ pc = "done"
  /\ Len(nodes) = 4
  /\ {nodes[i].node_type : i \in 2..4} = {"convertVideo", "convertAudio", "sequenceExtract"}
  /\ Len(calls) = 4
  /\ NoHandlerFailed
  /\ report[1].success
  /\ Cardinality(DOMAIN report[1].outputs) = 3

\* None of the three strategies applies to a VMAF node: no usable explicit pair, fewer
\* than two connections on the recognized handles, and not exactly two connections.
NoStrategyApplies(node_id) ==
  /\ ~ExplicitPair(node_id).ok
  /\ Len(InboundOn(node_id, ReferenceHandles \cup TestHandles)) < 2
  /\ Len(get_all_inputs(node_id, connections)) # 2

\* C26: the processing of a VMAF node to which no strategy applies fails with
\* InvalidNodeConfig without an invocation of the comparison, nothing is stored under
\* its id, and the run goes on: every VMAF node is processed and the report is the one
\* built from the context.
C26_NoStrategyFailsLocally ==
  \A i \in DOMAIN calls :
    (calls[i].op = "vmaf" /\ NoStrategyApplies(calls[i].node)) =>
      /\ ~calls[i].ok
      /\ calls[i].err[1].kind = "InvalidNodeConfig"
      /\ calls[i].inv = None
      /\ calls[i].node \notin DOMAIN vmaf_results
      /\ pc \in {"vmaf", "returned", "done"}
      /\ pc = "done" =>
           /\ \A v \in VmafNodes : \E j \in DOMAIN calls :
                calls[j].op = "vmaf" /\ calls[j].node = nodes[v].id
           /\ report[1].outputs = results
           /\ report[1].success = (results # EmptyMap)
           /\ report[1].vmaf_results # None =>
                calls[i].node \notin DOMAIN report[1].vmaf_results[1]

\* n2 is a VMAF node without inputs and n3 a VMAF node with three inputs on handles
\* that are not recognized: both failed, n3 after n2, and the run reported success.
C26_Witness ==
  /\ pc = "done"
  /\ nodes[2].node_type = "vmafAnalysis"
  /\ Len(connections) = 3
  /\ \A i \in DOMAIN connections :
       connections[i].from = "n1" /\ connections[i].to_handle \in {"video-input", "input-b"}
  /\ Len(calls) = 3
  /\ calls[2].node = "n2"
  /\ ~calls[2].ok
  /\ calls[3].node = "n3"
  /\ ~calls[3].ok
  /\ report[1].success

\* C27: in two runs over the same pipeline, every conversion and frame extraction is
\* given the same trim range (or none) in both, whatever order each run's resolver
\* produced.
C27_RangeOrderIndependent ==
  first_run # None =>
    \A i \in DOMAIN calls, j \in DOMAIN first_run[1].calls :
      LET c == calls[i]
          d == first_run[1].calls[j] IN
      (/\ c.node = d.node
       /\ c.inv # None
       /\ d.inv # None
       /\ c.inv[1].op \in TransformOps) =>
         c.inv[1].trim = d.inv[1].trim

\* C28: in calculate_execution_order no counter is decremented when it is zero, so no
\* counter is ever negative (or wrapped), and no node id is put in the order twice,
\* whatever the connections are: cycles, self-loops, connections listed twice, and
\* connections naming an id that is no node.
C28_NoUnderflow ==
  /\ ~underflow
  /\ \A n \in DOMAIN in_degree : in_degree[n] >= 0
  /\ \A n \in NodeIds : Occurrences(ordered_nodes, n) <= 1
  /\ \A i \in DOMAIN ordered_nodes : ordered_nodes[i] \in NodeIds

\* The resolver is through with a graph that has a connection listed twice into a node
\* it put in the order, and a self-loop or a connection from an id that is no node.
C28_Witness ==
  /\ pc = "returned"
  /\ Len(connections) = 3
  /\ \E i, j \in DOMAIN connections :
       /\ i < j
       /\ connections[i] = connections[j]
       /\ connections[i].from # connections[i].to
       /\ \E k \in DOMAIN ordered_nodes : ordered_nodes[k] = connections[i].to
  /\ \E i \in DOMAIN connections :
       connections[i].from = connections[i].to \/ connections[i].from = "nx"

\* The handler invocations of a node, and the VMAF processings of a node.
CallsOf(op, node_id) == {i \in DOMAIN calls : calls[i].op = op /\ calls[i].node = node_id}

\* C29: execute terminates on every graph: the resolver's loop takes at most one step
\* per node, every node's handler is invoked at most once, every VMAF node is
\* processed at most once, and the report is returned in the end.
C29_Terminates ==
  /\ [](/\ Len(ordered_nodes) <= Len(nodes)
        /\ \A n \in NodeIds : /\ Cardinality(CallsOf("process", n)) <= 1
                              /\ Cardinality(CallsOf("vmaf", n)) <= 1
        /\ Len(calls) <= Len(nodes))
  /\ <>(pc = "done")

\* A run of three nodes has ended after two handler invocations and the processing of
\* a VMAF node, over a graph in which the VMAF node is on a connection.
C29_Witness ==
  /\ pc = "done"
  /\ Len(nodes) = 3
  /\ Len(connections) = 2
  /\ Cardinality({i \in DOMAIN calls : calls[i].op = "process"}) = 2
  /\ Cardinality({i \in DOMAIN calls : calls[i].op = "vmaf"}) = 1

\* The analysis threads that are inside their loop: past a check that found the flag
\* set, and not yet back at the next one.
RunningLoops == {t \in DOMAIN spectrum.threads : spectrum.threads[t] \in {"read", "sleep"}}

\* C30: whatever the interleaving of the start and stop commands with the analysis
\* threads, at most one analysis loop is running at any time.
C30_OneAnalysisLoop == Cardinality(RunningLoops) <= 1
====
